---- MODULE Spec2Model ----
(***************************************************************************)
(* A model of docker-machine's fleet ("cluster") driver and of the Host    *)
(* lifecycle operations.                                                   *)
(*                                                                         *)
(*   Spec      the fleet driver: GetState aggregation and the concurrent   *)
(*             fan-out of Start / Stop / Upgrade / Remove                  *)
(*             (src/drivers/cluster/cluster.go)                            *)
(*   SpecHost  the Host operations Start / Stop / Kill / Upgrade / Remove  *)
(*             and Provider.Remove (src/host.go, src/commands.go)          *)
(*   SpecFleetRestart  the fleet driver's Restart: its stop phase and its  *)
(*             start phase                                                 *)
(*   SpecFleetHost  Host.Stop on a host whose driver is the fleet driver   *)
(*   SpecFunctions  functions of one call: GetState of the rivet and the   *)
(*             fleet driver, ValidateHostName, GenerateCert's template,    *)
(*             SaveConfig followed by LoadHost, newCertificate's validity  *)
(*             window, the lifecycle methods of the rivet driver           *)
(*   SpecLs    the listing: cmdLs and its getHostState tasks               *)
(*             (src/commands.go)                                           *)
(*   SpecWaitForDocker  utils.WaitForDocker's retry loop                   *)
(***************************************************************************)
EXTENDS Integers, Sequences, FiniteSets, TLC

\* The largest member list of a fleet that is explored.
MaxNodes == 3

\* state.State (the package is not part of the sources; the values are those
\* the drivers and the spec name).
States == {"None", "Starting", "Running", "Stopped", "Degraded", "Error"}

\* What a member's Driver.GetState() returns: (state.State, error).
Answer == [st : States, err : BOOLEAN]

NoAnswer == [st |-> "None", err |-> FALSE]

VARIABLES
    \* ---- fleet driver (cluster.Driver) ----
    ClusterNodes,   \* d.ClusterNodes: the member names, in order
    stored,         \* the names the store resolves (st.Get succeeds)
    fpc,            \* where the fleet call is: idle, loop, wait, returned
    fop,            \* the Driver method called on the fleet
    action,         \* the argument of clusterAction ("" when it is not called)
    idx,            \* the position of clusterAction's range loop
    queried,        \* per member: has its GetState been called by this call
    mState,         \* per member: the answer its GetState gave
    task,           \* per member: none, running, ok, failed (its goroutine)
    spawned,        \* the members of the go statements executed, in order
    wg,             \* the sync.WaitGroup counter
    warned,         \* the log.Warnf lines: <<"state"|"action", member>>
    fret,           \* what the fleet call returned: [state, err]
    stopPhase       \* Restart: per member, what clusterAction("stop") did

fleetVars == <<ClusterNodes, stored, fpc, fop, action, idx, queried, mState,
               task, spawned, wg, warned, fret, stopPhase>>

Members == 1 .. Len(ClusterNodes)

NoReturn == [state |-> "-", err |-> FALSE]

(***************************************************************************)
(* cluster.go: getClusterNodes, GetState                                   *)
(***************************************************************************)

\* getClusterNodes: st.Get of every name, in order; the first failure is
\* returned and no node list is.
getClusterNodes(names, st) ==
    IF \E i \in 1 .. Len(names) : names[i] \notin st
    THEN [nodes |-> << >>, err |-> TRUE]
    ELSE [nodes |-> names, err |-> FALSE]

\* The body of GetState's range loop for one member: TRUE when the loop
\* returns Degraded at this member.
MemberDegradesIgnoringErr(a) == a.st # "Running"

MemberDegrades(a) ==
    IF a.err THEN TRUE
    ELSE a.st # "Running"

\* GetState's loop from member i on: the state returned and how many members
\* were queried before it returned.
RECURSIVE GetStateLoop(_, _)
GetStateLoop(ans, i) ==
    IF i > Len(ans)
    THEN [state |-> "Running", err |-> FALSE, n |-> Len(ans)]
    ELSE IF MemberDegrades(ans[i])
         THEN [state |-> "Degraded", err |-> FALSE, n |-> i]
         ELSE GetStateLoop(ans, i + 1)

\* Driver.GetState, given the answers the members would give.
GetStateSeesAllStopped(names, st, ans) ==
    IF getClusterNodes(names, st).err
    THEN [state |-> "Error", err |-> TRUE, n |-> 0]
    ELSE IF Len(ans) > 0 /\ \A i \in DOMAIN ans : ans[i].st = "Stopped" /\ ~ans[i].err
    THEN [state |-> "Stopped", err |-> FALSE, n |-> Len(ans)]
    ELSE GetStateLoop(ans, 1)

GetState(names, st, ans) ==
    IF getClusterNodes(names, st).err
    THEN [state |-> "Error", err |-> TRUE, n |-> 0]
    ELSE GetStateLoop(ans, 1)

(***************************************************************************)
(* cluster.go: clusterAction, nodeAction                                   *)
(***************************************************************************)

\* clusterAction's switch: is a task dispatched to a member that answered a.
DispatchAlways(act, a) == TRUE

ShouldDispatch(act, a) ==
    CASE act = "start" -> a.st # "Running"
      [] act = "stop"  -> a.st # "Stopped"
      [] OTHER         -> TRUE

\* wg.Wait(): returns when the counter is zero.
WaitReturnsAtOnce(n) == TRUE

WaitReturns(n) == n = 0

\* clusterAction's last statement: return nil, whatever the tasks did.
ReturnFirstFailure(t) == \E i \in DOMAIN t : t[i] = "failed"

clusterActionErr(t) == FALSE

ClusterActions == {"start", "stop", "upgrade"}

FleetMethod(act) ==
    CASE act = "start"   -> "Start"
      [] act = "stop"    -> "Stop"
      [] act = "upgrade" -> "Upgrade"

FleetInit ==
    /\ \E n \in 0 .. MaxNodes : ClusterNodes = [i \in 1 .. n |-> i]
    /\ stored \in SUBSET {ClusterNodes[i] : i \in DOMAIN ClusterNodes}
    /\ fpc = "idle"
    /\ fop = ""
    /\ action = ""
    /\ idx = 0
    /\ queried = [i \in Members |-> FALSE]
    /\ mState = [i \in Members |-> NoAnswer]
    /\ task = [i \in Members |-> "none"]
    /\ spawned = << >>
    /\ wg = 0
    /\ warned = {}
    /\ fret = NoReturn
    /\ stopPhase = << >>

\* Driver.GetState(): resolve the members, query them in order.
FleetGetState ==
    /\ fpc = "idle"
    /\ \E ans \in [Members -> Answer] :
          LET r == GetState(ClusterNodes, stored, ans) IN
          /\ fret' = [state |-> r.state, err |-> r.err]
          /\ queried' = [i \in Members |-> i <= r.n]
          /\ mState' = [i \in Members |-> IF i <= r.n THEN ans[i] ELSE NoAnswer]
    /\ fpc' = "returned"
    /\ fop' = "GetState"
    /\ UNCHANGED <<stopPhase, ClusterNodes, stored, action, idx, task, spawned, wg,
                   warned>>

\* Driver.Start / Stop / Upgrade: clusterAction(act) up to its range loop.
FleetCall(act) ==
    /\ fpc = "idle"
    /\ fop' = FleetMethod(act)
    /\ action' = act
    /\ IF getClusterNodes(ClusterNodes, stored).err
       THEN /\ fpc' = "returned"
            /\ fret' = [state |-> "-", err |-> TRUE]
            /\ idx' = idx
       ELSE /\ fpc' = IF Len(ClusterNodes) = 0 THEN "wait" ELSE "loop"
            /\ fret' = fret
            /\ idx' = 1
    /\ UNCHANGED <<stopPhase, ClusterNodes, stored, queried, mState, task, spawned, wg,
                   warned>>

\* One iteration of clusterAction's range loop: query the member; on an error
\* warn and continue; otherwise wg.Add(1) and go nodeAction when the switch
\* says so.
LoopStep ==
    /\ fpc = "loop"
    /\ idx \in Members
    /\ \E a \in Answer :
          /\ queried' = [queried EXCEPT ![idx] = TRUE]
          /\ mState' = [mState EXCEPT ![idx] = a]
          /\ IF a.err
             THEN /\ warned' = warned \cup {<<"state", idx>>}
                  /\ UNCHANGED <<task, spawned, wg>>
             ELSE /\ warned' = warned
                  /\ IF ShouldDispatch(action, a)
                     THEN /\ wg' = wg + 1
                          /\ spawned' = Append(spawned, idx)
                          /\ task' = [task EXCEPT ![idx] = "running"]
                     ELSE UNCHANGED <<task, spawned, wg>>
    /\ idx' = idx + 1
    /\ fpc' = IF idx = Len(ClusterNodes) THEN "wait" ELSE "loop"
    /\ UNCHANGED <<stopPhase, ClusterNodes, stored, fop, action, fret>>

\* nodeAction of member i: the member operation returns (with or without an
\* error), a failure is logged, wg.Done().
nodeAction(i) ==
    /\ task[i] = "running"
    /\ \E failed \in BOOLEAN :
          /\ task' = [task EXCEPT ![i] = IF failed THEN "failed" ELSE "ok"]
          /\ warned' = IF failed THEN warned \cup {<<"action", i>>} ELSE warned
    /\ wg' = wg - 1
    /\ UNCHANGED <<stopPhase, ClusterNodes, stored, fpc, fop, action, idx, queried,
                   mState, spawned, fret>>

\* wg.Wait() returns; clusterAction returns nil.
FleetJoin ==
    /\ fpc = "wait"
    /\ fop # "Restart" \/ action = "start"
    /\ WaitReturns(wg)
    /\ fpc' = "returned"
    /\ fret' = [state |-> "-", err |-> clusterActionErr(task)]
    /\ UNCHANGED <<stopPhase, ClusterNodes, stored, fop, action, idx, queried, mState,
                   task, spawned, wg, warned>>

\* The longest member list explored for Restart.
MaxRestartNodes == 2

FleetRestartInit == FleetInit /\ Len(ClusterNodes) <= MaxRestartNodes

\* Restart's "if err := d.clusterAction(...); err != nil { return err }".
RestartGoesOnAnyway(err) == TRUE

RestartGoesOn(err) == ~err

\* Driver.Restart(): clusterAction("stop") up to its range loop; when it
\* returns an error at once, so does Restart.
FleetRestartCall ==
    /\ fpc = "idle"
    /\ fop' = "Restart"
    /\ LET err == getClusterNodes(ClusterNodes, stored).err IN
       IF err
       THEN /\ fpc' = "returned"
            /\ fret' = [state |-> "-", err |-> TRUE]
            /\ idx' = idx
            /\ action' = IF RestartGoesOn(err) THEN "start" ELSE "stop"
       ELSE /\ fpc' = IF Len(ClusterNodes) = 0 THEN "wait" ELSE "loop"
            /\ fret' = fret
            /\ idx' = 1
            /\ action' = "stop"
    /\ UNCHANGED <<stopPhase, ClusterNodes, stored, queried, mState, task,
                   spawned, wg, warned>>

\* clusterAction("stop") returns from wg.Wait() with nil, and Restart calls
\* clusterAction("start"), which resolves the members again and starts its
\* own range loop with its own WaitGroup.
FleetRestartJoin ==
    /\ fpc = "wait"
    /\ fop = "Restart" /\ action = "stop"
    /\ WaitReturns(wg)
    /\ stopPhase' = [i \in Members |->
                       [task |-> task[i],
                        stopped |-> ~mState[i].err /\ mState[i].st = "Stopped"]]
    /\ IF ~RestartGoesOn(clusterActionErr(task))
       THEN /\ fpc' = "returned"
            /\ fret' = [state |-> "-", err |-> TRUE]
            /\ UNCHANGED <<action, idx, queried, mState, task, spawned, wg>>
       ELSE /\ action' = "start"
            /\ queried' = [i \in Members |-> FALSE]
            /\ mState' = [i \in Members |-> NoAnswer]
            /\ task' = [i \in Members |-> "none"]
            /\ spawned' = << >>
            /\ wg' = 0
            /\ IF getClusterNodes(ClusterNodes, stored).err
               THEN /\ fpc' = "returned"
                    /\ fret' = [state |-> "-", err |-> TRUE]
                    /\ idx' = idx
               ELSE /\ fpc' = IF Len(ClusterNodes) = 0 THEN "wait" ELSE "loop"
                    /\ fret' = fret
                    /\ idx' = 1
    /\ UNCHANGED <<ClusterNodes, stored, fop, warned>>

\* Driver.Remove(): "// TODO", return nil.
FleetRemove ==
    /\ fpc = "idle"
    /\ fop' = "Remove"
    /\ fpc' = "returned"
    /\ fret' = [state |-> "-", err |-> FALSE]
    /\ UNCHANGED <<stopPhase, ClusterNodes, stored, action, idx, queried, mState, task,
                   spawned, wg, warned>>

\* Driver.Kill(): "// TODO", return nil.
FleetKill ==
    /\ fpc = "idle"
    /\ fop' = "Kill"
    /\ fpc' = "returned"
    /\ fret' = [state |-> "-", err |-> FALSE]
    /\ UNCHANGED <<stopPhase, ClusterNodes, stored, action, idx, queried, mState, task,
                   spawned, wg, warned>>

\* Driver.GetSSHCommand(args...): return nil, nil.
FleetGetSSHCommand ==
    /\ fpc = "idle"
    /\ fop' = "GetSSHCommand"
    /\ fpc' = "returned"
    /\ fret' = [state |-> "nil *exec.Cmd", err |-> FALSE]
    /\ UNCHANGED <<stopPhase, ClusterNodes, stored, action, idx, queried, mState, task,
                   spawned, wg, warned>>

(***************************************************************************)
(* host.go: the Host operations; commands.go: Provider.Remove              *)
(***************************************************************************)

\* The GetState polls of one call that may find the machine in another state
\* than the wanted one before the model stops following the call.
MaxPolls == 2

\* The number of attempts utils.WaitFor makes before it gives up. The helper
\* is not in the source; the model explores a small retry count.
MaxRetries == 2

VARIABLES
    storeDir,       \* h.storePath on disk: "dir" or "absent"
    storeHas,       \* the store still lists the host
    pre,            \* storeDir and storeHas when the current call started
    hpc,            \* idle, driver, save, poll, rwait, ssh, detect, provision,
                    \* rmpath, hostret, done, exited
    hcaller,        \* "host": a Host method is called; "provider": Provider.Remove
    hop,            \* the Host method called
    hsub,           \* the Host method whose body runs (Restart calls Stop, Start)
    hwait,          \* attempts the current utils.WaitFor call has made
    hmiss,          \* GetState polls of the call that missed the wanted state
    ppc,            \* position in the provisioning pipeline (0: not in it)
    swarm,          \* the host's SwarmConfig: "none", "agent" or "master"
    swarmHost,      \* what url.Parse makes of the host's swarmConfig.Host
    remote,         \* the contents written to the remote machine so far
    force,          \* Remove's force argument
    htrace,         \* what the call has done so far, in order: <<what, outcome>>
    hret,           \* what the Host method returned ("none" until it returns)
    pret            \* what Provider.Remove returned ("none" until it returns)

hostVars == <<storeDir, storeHas, pre, hpc, hcaller, hop, hsub, hwait, hmiss,
              ppc, swarm, swarmHost, remote, force, htrace, hret, pret>>

\* The variables only Host.Create changes.
createVars == <<ppc, swarm, swarmHost, remote>>

HostOps == {"Start", "Stop", "Kill", "Upgrade", "Remove", "Restart"}

\* The method whose body runs first: Host.Restart begins with h.Stop().
FirstBody(op) == IF op = "Restart" THEN "Stop" ELSE op

\* The Driver method each Host method invokes first. Host.Kill calls
\* h.Driver.Stop() (host.go:166).
DriverMethod(op) ==
    CASE op = "Start"  -> "Driver.Start"
      [] op = "Stop"   -> "Driver.Stop"
      [] op = "Kill"   -> "Driver.Stop"
      [] op = "Remove" -> "Driver.Remove"
      [] op = "Create" -> "Driver.Create"
      [] OTHER         -> "Driver.Upgrade"

\* Where a Host method starts: Upgrade returns at once, the others call the
\* Driver.
EntryAlwaysDriver(op) == "driver"

Entry(op) ==
    IF op = "Upgrade" THEN "return" ELSE "driver"

\* The error Host.Upgrade returns.
ErrDeferred == "centralized upgrade coming in the provisioner"

\* Does a failed (ok = FALSE) Driver call end the Host method: always for
\* Start / Stop / Kill, for Remove only without force.
DriverFailureNeverReturns(op, ok, f) == FALSE

DriverFailureReturns(op, ok, f) ==
    IF op = "Remove" THEN ~ok /\ ~f ELSE ~ok

\* What follows the Driver call when the method goes on: SaveConfig.
AfterDriverSkipsSave(op) == "poll"

AfterDriver(op) == "save"

\* What follows a successful SaveConfig.
AfterSave(op) ==
    CASE op \in {"Start", "Stop", "Kill"} -> "poll"
      [] op = "Remove"                    -> "rmpath"
      [] op = "Create"                    -> "ssh"
      [] OTHER                            -> "return"

\* The state the wait of a Host method polls for.
DesiredState(op) ==
    IF op = "Start" THEN "Running" ELSE "Stopped"

\* MachineInState's closure: an error of GetState is only logged, the state
\* returned with it is compared all the same.
MachineInStateOnAnyAnswer(desired, a) == TRUE

MachineInState(desired, a) == a.st = desired

\* utils.WaitFor: call the function until it returns true, sleep between two
\* attempts, give up with an error after the configured number of attempts.
\* WaitForSSH and the state polls call it with the function alone
\* (host.go:150, 162, 174, 182, 190, 316), so they share the retry count.
WaitForGivesUp(polls) == polls >= MaxRetries

NoWait == [n |-> 0, slept |-> 0]

\* One more attempt of the current wait has failed: it is counted, and unless
\* the wait gives up it sleeps before the next one.
WaitForRetries(w) ==
    [n |-> w.n + 1,
     slept |-> IF WaitForGivesUp(w.n + 1) THEN w.slept ELSE w.slept + 1]

\* Where Host.Restart goes on after its own wait that followed h.Stop() or
\* h.Start(): into h.Start(), or to its final SaveConfig.
RestartSkipsStart(sub) == [sub |-> "Restart", pc |-> "save"]

RestartAfterWait(sub) ==
    IF sub = "Stop" THEN [sub |-> "Start", pc |-> "driver"]
                    ELSE [sub |-> "Restart", pc |-> "save"]

\* Does Provider.Remove return Host.Remove's error instead of going on to
\* store.Remove.
ProviderReturnsEarly(err, f) == err # "nil" /\ ~f

\* SaveConfig can only succeed when the directory of config.json exists.
SaveOutcomes(dir) == IF dir = "dir" THEN BOOLEAN ELSE {FALSE}

\* store.Get can only succeed for a host the store lists.
GetOutcomes(has) == IF has THEN BOOLEAN ELSE {FALSE}

ErrOf(what) == <<"error of", what>>

\* fmt.Errorf(format, err): a new error that quotes err.
Errorf(format, err) == <<"fmt.Errorf", format, err>>

\* What one call of sshAvailableFunc's closure runs into: the call that
\* fails first, or "ok" when none does.
SSHAttempts ==
    {"ok", "GetSSHHostname", "GetSSHPort", "WaitForTCP", "GetSSHCommand",
     "cmd.Run"}

\* sshAvailableFunc's closure: false at the first call that fails.
sshAvailableAlways(r) == TRUE

sshAvailableFunc(r) == r = "ok"

\* WaitForSSH's error when utils.WaitFor gives up.
TooManyRetries == Errorf("Too many retries.  Last error: %s", ErrOf("WaitFor"))

SwarmConfigs == {"none", "agent", "master"}

\* What the local files named by the AuthOptions hold, and what the engine
\* configuration rendered by GenerateDockerConfig holds (flags and paths).
Contents ==
    [CaCertPath     |-> "CA certificate",
     PrivateKeyPath |-> "CA private key",
     ServerCertPath |-> "server certificate",
     ServerKeyPath  |-> "server key",
     EngineConfig   |-> "daemon options"]

\* A step that runs on the local machine, and a step that runs a command on
\* the remote machine, the command quoting the contents of the files in
\* sends. fails: how the step can fail ("return": the error is returned as
\* it is, "wrap": a new error is returned, "fatal": the process ends).
LocalStep(name, fails) ==
    [name |-> name, remote |-> FALSE, sends |-> {}, fails |-> fails]

RemoteStep(name, sends, fails) ==
    [name |-> name, remote |-> TRUE, sends |-> sends, fails |-> fails]

\* installDockerGeneric: an error of SSHCommand is returned, an error of
\* cmd.Run is wrapped into "error installing docker: ...".
installDockerGeneric ==
    RemoteStep("installDockerGeneric", {}, {"return", "wrap"})

\* The file ConfigureAuth reads for the first upload.
UploadsCaKey == "PrivateKeyPath"

UploadsCaCert == "CaCertPath"

\* provision.ConfigureAuth: the three CopyFile into the machine directory end
\* the process through log.Fatalf when they fail; the error of GenerateCert
\* is wrapped; Service("docker", Stop) does not check the error of SSHCommand
\* before it uses the command.
ConfigureAuthStartsEarly ==
    << LocalStep("CopyFile ca.pem", {"fatal"}),
       LocalStep("CopyFile cert.pem", {"fatal"}),
       LocalStep("CopyFile key.pem", {"fatal"}),
       LocalStep("GetIP", {"return"}),
       LocalStep("GenerateCert", {"wrap"}),
       RemoteStep("Service docker stop", {}, {"return", "fatal"}),
       RemoteStep("Service docker start", {}, {"return"}),
       RemoteStep("mkdir dockerDir", {}, {"return"}),
       LocalStep("ReadFile CaCertPath", {"return"}),
       LocalStep("ReadFile ServerCertPath", {"return"}),
       LocalStep("ReadFile ServerKeyPath", {"return"}),
       RemoteStep("tee ca.pem", {UploadsCaCert}, {"return"}),
       RemoteStep("tee server-key.pem", {"ServerKeyPath"}, {"return"}),
       RemoteStep("tee server.pem", {"ServerCertPath"}, {"return"}),
       LocalStep("GetURL", {"return"}),
       LocalStep("url.Parse dockerUrl", {"return"}),
       LocalStep("strconv.Atoi port", {"return"}),
       LocalStep("GenerateDockerConfig", {"return"}),
       RemoteStep("tee -a EngineConfigPath", {"EngineConfig"}, {"return"}) >>

ConfigureAuth ==
    << LocalStep("CopyFile ca.pem", {"fatal"}),
       LocalStep("CopyFile cert.pem", {"fatal"}),
       LocalStep("CopyFile key.pem", {"fatal"}),
       LocalStep("GetIP", {"return"}),
       LocalStep("GenerateCert", {"wrap"}),
       RemoteStep("Service docker stop", {}, {"return", "fatal"}),
       RemoteStep("mkdir dockerDir", {}, {"return"}),
       LocalStep("ReadFile CaCertPath", {"return"}),
       LocalStep("ReadFile ServerCertPath", {"return"}),
       LocalStep("ReadFile ServerKeyPath", {"return"}),
       RemoteStep("tee ca.pem", {UploadsCaCert}, {"return"}),
       RemoteStep("tee server-key.pem", {"ServerKeyPath"}, {"return"}),
       RemoteStep("tee server.pem", {"ServerCertPath"}, {"return"}),
       LocalStep("GetURL", {"return"}),
       LocalStep("url.Parse dockerUrl", {"return"}),
       LocalStep("strconv.Atoi port", {"return"}),
       LocalStep("GenerateDockerConfig", {"return"}),
       RemoteStep("tee -a EngineConfigPath", {"EngineConfig"}, {"return"}),
       RemoteStep("Service docker start", {}, {"return"}) >>

\* provision.configureSwarm: nothing for a host outside a swarm; parts[1] is
\* out of range, and the process ends, for a swarm host URL without a port.
configureSwarmUnconditional(sw) ==
    << RemoteStep("docker pull", {}, {"return"}),
       RemoteStep("docker run swarm-agent", {}, {"return"}) >>

configureSwarm(sw) ==
    IF sw = "none"
    THEN << >>
    ELSE << LocalStep("url.Parse swarmConfig.Host", {"return", "fatal"}),
            LocalStep("WaitForDocker", {"return"}),
            RemoteStep("docker pull", {}, {"return"}) >>
         \o (IF sw = "master"
             THEN << RemoteStep("docker run swarm-agent-master", {},
                                {"return"}) >>
             ELSE << >>)
         \o << RemoteStep("docker run swarm-agent", {}, {"return"}) >>

\* swarmConfig.Host as url.Parse sees it: the parse fails (err), or gives
\* the host part u.Host, a string of bytes.
SwarmHosts ==
    {[err |-> TRUE, host |-> << >>]}
    \cup {[err |-> FALSE, host |-> h] :
             h \in {<< >>, <<"h">>, <<"h", ":">>, <<"h", ":", "p">>}}

\* The management address of a host outside a swarm, which configureSwarm
\* never reads.
NoSwarmHost == [err |-> FALSE, host |-> << >>]

SwarmHostsOf(sw) == IF sw = "none" THEN {NoSwarmHost} ELSE SwarmHosts

\* strings.Split(s, sep) for a sep of one byte.
RECURSIVE stringsSplit(_, _)
stringsSplit(s, sep) ==
    IF \A i \in DOMAIN s : s[i] # sep
    THEN << s >>
    ELSE LET i == CHOOSE k \in DOMAIN s :
                     s[k] = sep /\ \A j \in 1..(k - 1) : s[j] # sep
         IN  << SubSeq(s, 1, i - 1) >>
             \o stringsSplit(SubSeq(s, i + 1, Len(s)), sep)

\* configureSwarm's url.Parse(swarmConfig.Host), strings.Split(u.Host, ":")
\* and parts[1]: the error of url.Parse is returned; the index expression
\* panics when Split gave a single part.
swarmPortReturnsError(h) ==
    IF h.err \/ Len(stringsSplit(h.host, ":")) <= 1 THEN "return" ELSE "ok"

swarmPort(h) ==
    IF h.err
    THEN "return"
    ELSE IF Len(stringsSplit(h.host, ":")) > 1 THEN "ok" ELSE "fatal"

\* How a step of the pipeline can end on a host whose management address
\* is h.
StepOutcomes(step, h) ==
    IF step.name = "url.Parse swarmConfig.Host"
    THEN {swarmPort(h)}
    ELSE {"ok"} \cup step.fails

\* Boot2DockerProvisioner.Provision: SetHostname, installDockerGeneric,
\* ConfigureAuth, configureSwarm.
ProvisionAuthBackwards(sw) ==
    << RemoteStep("SetHostname", {}, {"return"}), installDockerGeneric >>
    \o [i \in DOMAIN ConfigureAuth |->
           ConfigureAuth[Len(ConfigureAuth) + 1 - i]]
    \o configureSwarm(sw)

Provision(sw) ==
    << RemoteStep("SetHostname", {}, {"return"}), installDockerGeneric >>
    \o ConfigureAuth \o configureSwarm(sw)

\* Does the outcome of a step end the pipeline: every step is followed by
\* "if err != nil { return err }", or has ended the process.
StepFailureIgnored(out) == FALSE

StepFailureEnds(out) == out # "ok"

\* drivers.GenerateCloudInit: what the cloud-init document embeds.
GenerateCloudInit ==
    {Contents[f] :
        f \in {"EngineConfig", "CaCertPath", "ServerCertPath", "ServerKeyPath"}}

\* The calls of Provider.Create, after ValidateHostName, that can fail.
ProviderCreateSteps ==
    <<"store.Exists", "NewHost", "net.Dial", "Plugin.Version", "Plugin.Create">>

\* What Provider.Create's text holds after os.Exit(1).
ProviderCreateTail ==
    <<"SetConfigFromFlags", "PreCreateCheck", "os.MkdirAll", "SaveConfig",
      "Host.Create">>

\* os.Exit(1) ends the process: the statement after it is not reached.
osExitReturns(code) == FALSE

osExit(code) == TRUE

\* Provider.Create for a name that is valid or not, in a store that has the
\* name or not, when the k-th call of ProviderCreateSteps fails (0: none):
\* what it calls, what it returns, and whether it reaches os.Exit(1).
ProviderCreateIgnoresNameChecks(valid, has, k) ==
    [trace |-> << <<"ValidateHostName", valid>> >>
               \o [i \in DOMAIN ProviderCreateSteps |->
                      <<ProviderCreateSteps[i], TRUE>>],
     ret |-> "none", exit |-> TRUE]

ProviderCreateRun(valid, has, k) ==
    LET named == <<"ValidateHostName", valid>>
        calls(n) == [i \in 1..n |-> <<ProviderCreateSteps[i], i # k>>]
    IN  IF ~valid
        THEN [trace |-> <<named>>, ret |-> "ErrInvalidHostname",
              exit |-> FALSE]
        ELSE IF k = 1
        THEN [trace |-> <<named>> \o calls(1), ret |-> ErrOf("store.Exists"),
              exit |-> FALSE]
        ELSE IF has
        THEN [trace |-> <<named>> \o calls(1),
              ret |-> "Machine already exists", exit |-> FALSE]
        ELSE IF k = 0
        THEN IF osExit(1)
             THEN [trace |-> <<named>> \o calls(Len(ProviderCreateSteps)),
                   ret |-> "none", exit |-> TRUE]
             ELSE [trace |-> <<named>> \o calls(Len(ProviderCreateSteps))
                             \o [i \in DOMAIN ProviderCreateTail |->
                                    <<ProviderCreateTail[i], TRUE>>],
                   ret |-> "nil", exit |-> FALSE]
        ELSE [trace |-> <<named>> \o calls(k),
              ret |-> ErrOf(ProviderCreateSteps[k]), exit |-> FALSE]

\* The Host method returns r: to its caller, or into Provider.Remove.
HostReturns(r) ==
    /\ hret' = r
    /\ hpc' = IF hcaller = "provider" THEN "hostret" ELSE "done"

\* The method whose body runs returns r. Inside Host.Restart a nil of h.Stop()
\* or h.Start() leads on to Restart's own wait; an error is returned as it is.
MethodReturns(r) ==
    IF hop = "Restart" /\ hsub # "Restart" /\ r = "nil"
    THEN /\ hpc' = "rwait"
         /\ hret' = hret
    ELSE HostReturns(r)

HostInit ==
    /\ storeDir = "dir"
    /\ storeHas = TRUE
    /\ pre = [storeDir |-> storeDir, storeHas |-> storeHas]
    /\ hpc = "idle"
    /\ hcaller = "host"
    /\ hop = ""
    /\ hsub = ""
    /\ hwait = NoWait
    /\ hmiss = 0
    /\ ppc = 0
    /\ swarm = "none"
    /\ swarmHost = NoSwarmHost
    /\ remote = {}
    /\ force = FALSE
    /\ htrace = << >>
    /\ hret = "none"
    /\ pret = "none"

\* A Host method is called: Start, Stop, Kill, Upgrade, Restart or Remove(f).
HostCall(op, f) ==
    /\ hpc = "idle"
    /\ hcaller' = "host"
    /\ hop' = op
    /\ hsub' = FirstBody(op)
    /\ force' = f
    /\ pre' = [storeDir |-> storeDir, storeHas |-> storeHas]
    /\ IF Entry(op) = "return"
       THEN /\ hret' = ErrDeferred
            /\ hpc' = "done"
       ELSE /\ hret' = hret
            /\ hpc' = "driver"
    /\ UNCHANGED <<storeDir, storeHas, htrace, pret, hwait, hmiss>>
    /\ UNCHANGED createVars

\* Provider.Remove(name, f) is called: store.Get(name), then host.Remove(f).
ProviderRemoveCall(f) ==
    /\ hpc = "idle"
    /\ hcaller' = "provider"
    /\ hop' = "Remove"
    /\ hsub' = "Remove"
    /\ force' = f
    /\ pre' = [storeDir |-> storeDir, storeHas |-> storeHas]
    /\ \E ok \in GetOutcomes(storeHas) :
          /\ htrace' = Append(htrace, <<"store.Get", ok>>)
          /\ IF ok
             THEN /\ hpc' = "driver"
                  /\ pret' = pret
             ELSE /\ hpc' = "done"
                  /\ pret' = ErrOf("store.Get")
    /\ UNCHANGED <<storeDir, storeHas, hret, hwait, hmiss>>
    /\ UNCHANGED createVars

\* The Driver call of Start / Stop / Kill / Remove / Create. A Driver may
\* hand the machine a cloud-init document when it creates it.
HostDriverOp ==
    /\ hpc = "driver"
    /\ \E ok \in BOOLEAN :
          /\ htrace' = Append(htrace, <<DriverMethod(hsub), ok>>)
          /\ IF DriverFailureReturns(hsub, ok, force)
             THEN MethodReturns(ErrOf(DriverMethod(hsub)))
             ELSE /\ hpc' = AfterDriver(hsub)
                  /\ hret' = hret
    /\ \E ci \in (IF hsub = "Create" THEN BOOLEAN ELSE {FALSE}) :
          remote' = IF ci THEN remote \cup GenerateCloudInit ELSE remote
    /\ UNCHANGED <<storeDir, storeHas, pre, hcaller, hop, hsub, hwait, hmiss,
                   ppc, swarm, swarmHost, force, pret>>

\* h.SaveConfig(): config.json is written, or the write fails.
HostSaveConfig ==
    /\ hpc = "save"
    /\ \E ok \in SaveOutcomes(storeDir) :
          /\ htrace' = Append(htrace, <<"SaveConfig", ok>>)
          /\ IF ~ok
             THEN MethodReturns(ErrOf("SaveConfig"))
             ELSE IF AfterSave(hsub) = "return"
                  THEN MethodReturns("nil")
                  ELSE /\ hpc' = AfterSave(hsub)
                       /\ hret' = hret
    /\ hwait' = NoWait
    /\ UNCHANGED <<storeDir, storeHas, pre, hcaller, hop, hsub, hmiss, force,
                   pret>>
    /\ UNCHANGED createVars

\* One round of utils.WaitFor(h.MachineInState(desired)) in Start, Stop, Kill.
\* The round in which h.Driver.GetState() answers a.
HostPollAnswer(a) ==
    /\ hpc = "poll"
    /\ MachineInState(DesiredState(hsub), a) \/ hmiss < MaxPolls
    /\ htrace' = Append(htrace, <<"GetState", a>>)
    /\ IF MachineInState(DesiredState(hsub), a)
       THEN /\ MethodReturns("nil")
            /\ hwait' = NoWait
            /\ hmiss' = hmiss
       ELSE /\ hmiss' = hmiss + 1
            /\ hwait' = WaitForRetries(hwait)
            /\ IF WaitForGivesUp(hwait.n + 1)
               THEN MethodReturns(ErrOf("WaitFor"))
               ELSE UNCHANGED <<hpc, hret>>
    /\ UNCHANGED <<storeDir, storeHas, pre, hcaller, hop, hsub, force, pret>>
    /\ UNCHANGED createVars

HostPoll == \E a \in Answer : HostPollAnswer(a)

\* The same round of a host whose Driver is the fleet driver: the answer is
\* that of cluster.Driver.GetState for what the members answer.
FleetHostPoll ==
    \E ans \in [Members -> Answer] :
       LET r == GetState(ClusterNodes, stored, ans) IN
       /\ HostPollAnswer([st |-> r.state, err |-> r.err])
       /\ queried' = [i \in Members |-> i <= r.n]
       /\ mState' = ans
       /\ UNCHANGED <<stopPhase, ClusterNodes, stored, fpc, fop, action, idx,
                      task, spawned, wg, warned, fret>>

\* One round of the wait Host.Restart makes itself after h.Stop() and after
\* h.Start() returned nil.
HostRestartWait ==
    /\ hpc = "rwait"
    /\ \E a \in Answer :
          /\ MachineInState(DesiredState(hsub), a) \/ hmiss < MaxPolls
          /\ htrace' = Append(htrace, <<"GetState", a>>)
          /\ IF MachineInState(DesiredState(hsub), a)
             THEN /\ hsub' = RestartAfterWait(hsub).sub
                  /\ hpc' = RestartAfterWait(hsub).pc
                  /\ hret' = hret
                  /\ hwait' = NoWait
                  /\ hmiss' = hmiss
             ELSE /\ hmiss' = hmiss + 1
                  /\ hwait' = WaitForRetries(hwait)
                  /\ hsub' = hsub
                  /\ IF WaitForGivesUp(hwait.n + 1)
                     THEN HostReturns(ErrOf("WaitFor"))
                     ELSE UNCHANGED <<hpc, hret>>
    /\ UNCHANGED <<storeDir, storeHas, pre, hcaller, hop, force, pret>>
    /\ UNCHANGED createVars

\* h.removeStorePath(): os.Stat, IsDir, os.RemoveAll. It runs right after a
\* SaveConfig that wrote into the directory, so the path is a directory.
HostRemoveStorePath ==
    /\ hpc = "rmpath"
    /\ IF storeDir # "dir"
       THEN /\ htrace' = Append(htrace, <<"os.Stat", FALSE>>)
            /\ HostReturns(ErrOf("os.Stat"))
            /\ storeDir' = storeDir
       ELSE \E ok \in BOOLEAN :
               /\ htrace' = Append(htrace, <<"os.RemoveAll", ok>>)
               /\ storeDir' = IF ok THEN "absent" ELSE storeDir
               /\ HostReturns(IF ok THEN "nil" ELSE ErrOf("os.RemoveAll"))
    /\ UNCHANGED <<storeHas, pre, hcaller, hop, hsub, hwait, hmiss, force,
                   pret>>
    /\ UNCHANGED createVars

\* Provider.Remove after host.Remove returned: return its error when force is
\* not set, else return provider.store.Remove(name, force).
ProviderAfterRemove ==
    /\ hpc = "hostret"
    /\ hpc' = "done"
    /\ IF ProviderReturnsEarly(hret, force)
       THEN /\ pret' = hret
            /\ UNCHANGED <<htrace, storeHas>>
       ELSE \E ok \in BOOLEAN :
               /\ htrace' = Append(htrace, <<"store.Remove", ok>>)
               /\ storeHas' = IF ok THEN FALSE ELSE storeHas
               /\ pret' = IF ok THEN "nil" ELSE ErrOf("store.Remove")
    /\ UNCHANGED <<storeDir, pre, hcaller, hop, hsub, hwait, hmiss, force,
                   hret>>
    /\ UNCHANGED createVars

\* Host.Create is called on a host with the swarm configuration sw, whose
\* management address is h.
HostCreateCall(sw, h) ==
    /\ hpc = "idle"
    /\ hcaller' = "host"
    /\ hop' = "Create"
    /\ hsub' = "Create"
    /\ swarm' = sw
    /\ swarmHost' = h
    /\ hpc' = "driver"
    /\ pre' = [storeDir |-> storeDir, storeHas |-> storeHas]
    /\ UNCHANGED <<storeDir, storeHas, hwait, hmiss, ppc, remote, force,
                   htrace, hret, pret>>

\* One attempt of utils.WaitFor(sshAvailableFunc(h)) in WaitForSSH.
HostWaitForSSH ==
    /\ hpc = "ssh"
    /\ \E r \in SSHAttempts :
          /\ htrace' = Append(htrace, <<"sshAvailable", r>>)
          /\ IF sshAvailableFunc(r)
             THEN /\ hpc' = "detect"
                  /\ hret' = hret
                  /\ hwait' = NoWait
             ELSE /\ hwait' = WaitForRetries(hwait)
                  /\ IF WaitForGivesUp(hwait.n + 1)
                     THEN MethodReturns(TooManyRetries)
                     ELSE UNCHANGED <<hpc, hret>>
    /\ UNCHANGED <<storeDir, storeHas, pre, hcaller, hop, hsub, hmiss, force,
                   pret>>
    /\ UNCHANGED createVars

\* provision.DetectProvisioner(h.Driver).
HostDetectProvisioner ==
    /\ hpc = "detect"
    /\ \E ok \in BOOLEAN :
          /\ htrace' = Append(htrace, <<"DetectProvisioner", ok>>)
          /\ IF ok
             THEN /\ hpc' = "provision"
                  /\ ppc' = 1
                  /\ hret' = hret
             ELSE /\ MethodReturns(ErrOf("DetectProvisioner"))
                  /\ ppc' = ppc
    /\ UNCHANGED <<storeDir, storeHas, pre, hcaller, hop, hsub, hwait, hmiss,
                   swarm, swarmHost, remote, force, pret>>

\* One step of provisioner.Provision(h.SwarmConfig, h.AuthConfig).
HostProvisionStep ==
    /\ hpc = "provision"
    /\ LET step == Provision(swarm)[ppc] IN
       \E out \in StepOutcomes(step, swarmHost) :
          /\ htrace' = Append(htrace, <<step.name, out = "ok">>)
          /\ remote' = remote \cup {Contents[f] : f \in step.sends}
          /\ IF ~StepFailureEnds(out)
             THEN IF ppc < Len(Provision(swarm))
                  THEN /\ ppc' = ppc + 1
                       /\ UNCHANGED <<hpc, hret>>
                  ELSE /\ ppc' = ppc
                       /\ MethodReturns("nil")
             ELSE /\ ppc' = ppc
                  /\ CASE out = "return" ->
                            MethodReturns(ErrOf(step.name))
                       [] out = "wrap" ->
                            MethodReturns(Errorf(step.name, ErrOf(step.name)))
                       [] OTHER ->
                            /\ hpc' = "exited"
                            /\ hret' = hret
    /\ UNCHANGED <<storeDir, storeHas, pre, hcaller, hop, hsub, hwait, hmiss,
                   swarm, swarmHost, force, pret>>

\* Provider.Create(name, ...) is called with a name that is valid or not;
\* the k-th of its calls fails (k = 0: none does).
ProviderCreate(valid, k) ==
    /\ hpc = "idle"
    /\ hcaller' = "provider"
    /\ hop' = "Provider.Create"
    /\ hsub' = "Provider.Create"
    /\ pre' = [storeDir |-> storeDir, storeHas |-> storeHas]
    /\ LET run == ProviderCreateRun(valid, storeHas, k) IN
          /\ htrace' = run.trace
          /\ pret' = run.ret
          /\ hpc' = IF run.exit THEN "exited" ELSE "done"
    /\ UNCHANGED <<storeDir, storeHas, hwait, hmiss, force, hret>>
    /\ UNCHANGED createVars

\* The call is over, or the process has ended; the next call on the same host
\* starts from the local state this one left.
HostDone ==
    /\ hpc \in {"done", "exited"}
    /\ hpc' = "idle"
    /\ hcaller' = "host"
    /\ hop' = ""
    /\ hsub' = ""
    /\ hwait' = NoWait
    /\ hmiss' = 0
    /\ ppc' = 0
    /\ swarm' = "none"
    /\ swarmHost' = NoSwarmHost
    /\ remote' = {}
    /\ force' = FALSE
    /\ htrace' = << >>
    /\ hret' = "none"
    /\ pret' = "none"
    /\ pre' = [storeDir |-> storeDir, storeHas |-> storeHas]
    /\ UNCHANGED <<storeDir, storeHas>>

(***************************************************************************)
(* drivers: the driver registry (Register, NewDriver)                      *)
(***************************************************************************)

VARIABLES
    drivers,        \* the registry: driver name -> registered constructor
    firstReg,       \* history: the constructor of the first Register per name
    rpre,           \* the registry when the last call started
    rres            \* the last call and what it returned

regVars == <<drivers, firstReg, rpre, rres>>

DriverNames == {"cluster", "rivet", "virtualbox"}

Constructors == {"cluster.NewDriver", "rivet.NewDriver"}

Unregistered == "unregistered"

NoCall ==
    [op |-> "none", name |-> "", ctor |-> "", err |-> "nil", built |-> "none"]

\* _, exists := drivers[name]
ExistsNever(reg, name) == FALSE

Exists(reg, name) == reg[name] # Unregistered

ErrAlreadyRegistered == "Name already registered"

ErrUnknownDriver == "hosts: Unknown driver"

RegInit ==
    /\ drivers = [n \in DriverNames |-> Unregistered]
    /\ firstReg = [n \in DriverNames |-> Unregistered]
    /\ rpre = drivers
    /\ rres = NoCall

\* drivers.Register(name, registeredDriver).
Register(name, rd) ==
    /\ rpre' = drivers
    /\ firstReg' = IF firstReg[name] = Unregistered
                   THEN [firstReg EXCEPT ![name] = rd]
                   ELSE firstReg
    /\ IF Exists(drivers, name)
       THEN /\ drivers' = drivers
            /\ rres' = [op |-> "Register", name |-> name, ctor |-> rd,
                        err |-> ErrAlreadyRegistered, built |-> "none"]
       ELSE /\ drivers' = [drivers EXCEPT ![name] = rd]
            /\ rres' = [op |-> "Register", name |-> name, ctor |-> rd,
                        err |-> "nil", built |-> "none"]

\* drivers.NewDriver(name, ...): the registered constructor is called, and
\* returns a Driver or its own error.
NewDriver(name, ok) ==
    /\ rpre' = drivers
    /\ UNCHANGED <<drivers, firstReg>>
    /\ IF ~Exists(drivers, name)
       THEN rres' = [op |-> "NewDriver", name |-> name, ctor |-> "",
                     err |-> ErrUnknownDriver, built |-> "none"]
       ELSE rres' = [op |-> "NewDriver", name |-> name, ctor |-> drivers[name],
                     err |-> IF ok THEN "nil" ELSE "error of New",
                     built |-> IF ok THEN drivers[name] ELSE "none"]

(***************************************************************************)
(* utils: the certificate files (GenerateCACertificate, GenerateCert,      *)
(* SetupMachineCertificates)                                               *)
(***************************************************************************)

VARIABLES
    files,          \* per path: "absent", "old" (as the last call found it)
                    \* or "new" (written by the last call)
    cpre,           \* the files when the last call started
    cop,            \* the last call
    cret            \* what it returned

certVars == <<files, cpre, cop, cret>>

CertPaths ==
    {"machineDir", "caCert", "caKey", "clientDir", "clientCert", "clientKey",
     "clientCa"}

CertFiles == {"caCert", "caKey", "clientCert", "clientKey", "clientCa"}

\* The files as a call finds them: what an earlier call wrote is old now.
Aged(fs) == [p \in CertPaths |-> IF fs[p] = "new" THEN "old" ELSE fs[p]]

IsNotExist(fs, p) == fs[p] = "absent"

\* Where the generation of a key pair fails: nowhere, before a file is
\* opened, at os.Create of the certificate file, or at os.OpenFile of the key
\* file (the certificate file is written by then).
GenFailures == {"none", "before", "certFile", "keyFile"}

\* os.Create(certFile) and os.OpenFile(keyFile, O_WRONLY|O_CREATE|O_TRUNC):
\* the files are created, or truncated and rewritten when they exist.
WritePair(fs, certFile, keyFile, fail) ==
    IF fail \in {"before", "certFile"}
    THEN fs
    ELSE IF fail = "keyFile"
    THEN [fs EXCEPT ![certFile] = "new"]
    ELSE [fs EXCEPT ![certFile] = "new", ![keyFile] = "new"]

\* utils.GenerateCACertificate(certFile, keyFile, org, bits).
GenerateCACertificate(fs, certFile, keyFile, fail) ==
    [fs  |-> WritePair(fs, certFile, keyFile, fail),
     err |-> IF fail = "none" THEN "nil" ELSE fail]

\* utils.GenerateCert(hosts, certFile, keyFile, caFile, caKeyFile, org, bits):
\* tls.LoadX509KeyPair(caFile, caKeyFile) fails when one of them is missing.
GenerateCert(fs, certFile, keyFile, caFile, caKeyFile, fail) ==
    IF IsNotExist(fs, caFile) \/ IsNotExist(fs, caKeyFile)
    THEN [fs |-> fs, err |-> "LoadX509KeyPair"]
    ELSE [fs  |-> WritePair(fs, certFile, keyFile, fail),
          err |-> IF fail = "none" THEN "nil" ELSE fail]

\* What can go wrong in one call of SetupMachineCertificates: the two
\* directory creations, the two generations and the copy of ca.pem.
SetupFailures ==
    [mkdir : BOOLEAN, ca : GenFailures, mkclient : BOOLEAN,
     client : GenFailures, copy : BOOLEAN]

\* The client half of SetupMachineCertificates (lines 241-267).
SetupClient(fs, f) ==
    IF ~IsNotExist(fs, "clientCert")
    THEN [fs |-> fs, err |-> "nil"]
    ELSE IF IsNotExist(fs, "clientDir") /\ f.mkclient
    THEN [fs |-> fs, err |-> "Error creating machine client cert dir"]
    ELSE
    LET fs1 == IF IsNotExist(fs, "clientDir")
               THEN [fs EXCEPT !["clientDir"] = "new"] ELSE fs
        gen == GenerateCert(fs1, "clientCert", "clientKey", "caCert", "caKey",
                            f.client)
    IN  IF ~IsNotExist(fs1, "clientKey")
        THEN [fs |-> fs1, err |-> "The client key already exists"]
        ELSE IF gen.err # "nil"
        THEN [fs |-> gen.fs, err |-> "Error generating client certificate"]
        ELSE IF f.copy
        THEN [fs |-> gen.fs, err |-> "Error copying ca.pem to client cert dir"]
        ELSE [fs |-> [gen.fs EXCEPT !["clientCa"] = "new"], err |-> "nil"]

\* utils.SetupMachineCertificates(caCertPath, caKeyPath, clientCertPath,
\* clientKeyPath) on the files fs when f says what fails.
SetupMachineCertificates(fs, f) ==
    IF IsNotExist(fs, "machineDir") /\ f.mkdir
    THEN [fs |-> fs, err |-> "Error creating machine config dir"]
    ELSE
    LET fs1 == IF IsNotExist(fs, "machineDir")
               THEN [fs EXCEPT !["machineDir"] = "new"] ELSE fs
        gen == GenerateCACertificate(fs1, "caCert", "caKey", f.ca)
    IN  IF ~IsNotExist(fs1, "caCert")
        THEN SetupClient(fs1, f)
        ELSE IF ~IsNotExist(fs1, "caKey")
        THEN [fs |-> fs1, err |-> "The CA key already exists"]
        ELSE IF gen.err # "nil"
        THEN [fs |-> gen.fs, err |-> "Error generating CA certificate"]
        ELSE SetupClient(gen.fs, f)

CertInit ==
    /\ files = [p \in CertPaths |-> "absent"]
    /\ cpre = files
    /\ cop = "none"
    /\ cret = "none"

\* SetupMachineCertificates is called.
CallSetupMachineCertificates(f) ==
    LET r == SetupMachineCertificates(Aged(files), f) IN
    /\ cpre' = Aged(files)
    /\ cop' = "SetupMachineCertificates"
    /\ files' = r.fs
    /\ cret' = r.err

\* GenerateCACertificate is called on the CA paths.
CallGenerateCACertificate(fail) ==
    LET r == GenerateCACertificate(Aged(files), "caCert", "caKey", fail) IN
    /\ cpre' = Aged(files)
    /\ cop' = "GenerateCACertificate"
    /\ files' = r.fs
    /\ cret' = r.err

\* The user removes one of the files, as the error messages ask for.
UserRemoves(p) ==
    /\ files[p] # "absent"
    /\ cpre' = Aged(files)
    /\ cop' = "remove"
    /\ files' = [Aged(files) EXCEPT ![p] = "absent"]
    /\ cret' = "none"

(***************************************************************************)
(* Functions of one call: what they return for the arguments they get      *)
(***************************************************************************)

VARIABLES
    fn,             \* the function called ("none" before the call)
    fin,            \* its arguments and what it reads
    fout            \* what it returned

fnVars == <<fn, fin, fout>>

FnInit ==
    /\ fn = "none"
    /\ fin = << >>
    /\ fout = << >>

\* rivet.go, Driver.GetState: what the API's answers can be.
RivetStatusCodes == {200, 404, 500}

RivetResponses == {"running", "stopped", "pending", "degraded", "error", ""}

\* Driver.GetState's switch on resp.Response.
rivetStateErrorOnUnknown(response) ==
    CASE response = "running" -> "Running"
      [] response = "stopped" -> "Stopped"
      [] response = "pending" -> "Starting"
      [] OTHER                -> "Error"

rivetState(response) ==
    CASE response = "running" -> "Running"
      [] response = "stopped" -> "Stopped"
      [] response = "pending" -> "Starting"
      [] OTHER                -> "None"

\* rivet's Driver.GetState: getAPI, r.GetState, the status code, the switch.
\* fmt.Errorf never returns nil.
rivetGetState(apiErr, callErr, code, response) ==
    IF apiErr THEN [state |-> "Error", err |-> TRUE]
    ELSE IF callErr THEN [state |-> "Error", err |-> TRUE]
    ELSE IF code # 200 THEN [state |-> "Error", err |-> TRUE]
    ELSE [state |-> rivetState(response), err |-> FALSE]

CallRivetGetState ==
    /\ fn = "none"
    /\ \E apiErr \in BOOLEAN, callErr \in BOOLEAN,
          code \in RivetStatusCodes, response \in RivetResponses :
          /\ fin' = [apiErr |-> apiErr, callErr |-> callErr,
                     StatusCode |-> code, Response |-> response]
          /\ fout' = rivetGetState(apiErr, callErr, code, response)
    /\ fn' = "rivet.GetState"

\* rivet.go, the lifecycle methods of the Driver.
RivetLifecycleOps == {"Create", "Start", "Stop", "Restart", "Kill", "Remove"}

\* One lifecycle method: createSSHKey (Create only), getAPI, the call of the
\* API, the status code.  ret is what the method returns ("none": it does not
\* return), exited whether log.Fatalf ended the process, calls the number of
\* requests sent to the API.
rivetLifecycle(op, keyErr, apiErr, callErr, code) ==
    IF op = "Create" /\ keyErr
    THEN [ret |-> "error of createSSHKey", exited |-> FALSE, calls |-> 0]
    ELSE IF apiErr
    THEN [ret |-> "error of getAPI", exited |-> FALSE, calls |-> 0]
    ELSE IF callErr
    THEN [ret |-> "error of the API call", exited |-> FALSE, calls |-> 1]
    ELSE IF code # 200
    THEN IF op = "Create"
         THEN [ret |-> "none", exited |-> TRUE, calls |-> 1]
         ELSE [ret |-> "fmt.Errorf(resp.Response)", exited |-> FALSE,
               calls |-> 1]
    ELSE [ret |-> "nil", exited |-> FALSE, calls |-> 1]

CallRivetLifecycle ==
    /\ fn = "none"
    /\ \E op \in RivetLifecycleOps, keyErr \in BOOLEAN, apiErr \in BOOLEAN,
          callErr \in BOOLEAN, code \in RivetStatusCodes :
          /\ fin' = [op |-> op, keyErr |-> keyErr, apiErr |-> apiErr,
                     callErr |-> callErr, StatusCode |-> code]
          /\ fout' = rivetLifecycle(op, keyErr, apiErr, callErr, code)
    /\ fn' = "rivet lifecycle"

\* The fleet driver's GetState for every member list, store and answers.
CallClusterGetState ==
    /\ fn = "none"
    /\ \E n \in 0 .. MaxNodes :
          \E st \in SUBSET (1 .. n), ans \in [1 .. n -> Answer] :
             LET names == [i \in 1 .. n |-> i]
                 r == GetState(names, st, ans) IN
             /\ fin' = [ClusterNodes |-> names, stored |-> st, ans |-> ans]
             /\ fout' = [state |-> r.state, err |-> r.err]
    /\ fn' = "cluster.GetState"

\* host.go, ValidateHostName.  A name is the sequence of its bytes; the names
\* explored are built from these: a z A Z 0 9 - . and, next to the ranges,
\* space / _ newline @ [ ` { and :
MaxNameLen == 3

NameBytes == {97, 122, 65, 90, 48, 57, 45, 46, 32, 47, 95, 10, 64, 91, 96, 123, 58}

RECURSIVE NamesUpTo(_)
NamesUpTo(n) ==
    IF n = 0 THEN {<< >>}
    ELSE LET shorter == NamesUpTo(n - 1) IN
         shorter \cup {Append(s, b) : s \in {t \in shorter : Len(t) = n - 1},
                                      b \in NameBytes}

\* validHostNameChars: [a-zA-Z0-9\-\.]
validHostNameChars(b) ==
    \/ b >= 97 /\ b <= 122
    \/ b >= 65 /\ b <= 90
    \/ b >= 48 /\ b <= 57
    \/ b = 45
    \/ b = 46

\* validHostNamePattern.MatchString: ^ class + $, where $ is the end of the
\* text (no multi-line flag): one or more bytes of the class and nothing
\* else.
RECURSIVE MatchClassStar(_, _)
MatchClassStar(name, i) ==
    IF i > Len(name) THEN TRUE
    ELSE validHostNameChars(name[i]) /\ MatchClassStar(name, i + 1)

validHostNamePatternStar(name) ==
    MatchClassStar(name, 1)

validHostNamePattern(name) ==
    Len(name) >= 1 /\ MatchClassStar(name, 1)

ValidateHostName(name) ==
    IF ~validHostNamePattern(name)
    THEN [name |-> name, err |-> "ErrInvalidHostname"]
    ELSE [name |-> name, err |-> "nil"]

CallValidateHostName ==
    /\ fn = "none"
    /\ \E name \in NamesUpTo(MaxNameLen) :
          /\ fin' = name
          /\ fout' = ValidateHostName(name)
    /\ fn' = "ValidateHostName"

\* GenerateCert's template.  The host lists explored: up to MaxHosts entries
\* out of these.
MaxHosts == 3

HostEntries == {"", "10.0.0.5", "::1", "0:0:0:0:0:0:0:1", "node.example.com",
                "10.0.0", "localhost"}

RECURSIVE HostLists(_)
HostLists(n) ==
    IF n = 0 THEN {<< >>}
    ELSE LET shorter == HostLists(n - 1) IN
         shorter \cup {Append(s, h) : s \in {t \in shorter : Len(t) = n - 1},
                                      h \in HostEntries}

\* net.ParseIP: the address a literal denotes (the nil IP, of length 0, when
\* it is none); the two spellings of the IPv6 loopback denote one address.
ParseIP(h) ==
    CASE h = "10.0.0.5"        -> <<10, 0, 0, 5>>
      [] h = "::1"             -> <<0, 0, 0, 0, 0, 0, 0, 1>>
      [] h = "0:0:0:0:0:0:0:1" -> <<0, 0, 0, 0, 0, 0, 0, 1>>
      [] OTHER                 -> << >>

\* newCertificate: the fields of the template that GenerateCert goes on to
\* set.
newCertificate ==
    [KeyUsage |-> {"KeyEncipherment", "DigitalSignature"},
     ExtKeyUsage |-> << >>,
     IPAddresses |-> << >>,
     DNSNames |-> << >>]

\* GenerateCert's test for the client certificate.
IsClientFirstEmpty(hosts) == Len(hosts) >= 1 /\ hosts[1] = ""

IsClient(hosts) == Len(hosts) = 1 /\ hosts[1] = ""

\* GenerateCert's range loop over hosts, from entry i on.
RECURSIVE AddHosts(_, _, _)
AddHosts(template, hosts, i) ==
    IF i > Len(hosts) THEN template
    ELSE IF ParseIP(hosts[i]) # << >>
         THEN AddHosts([template EXCEPT !.IPAddresses =
                            Append(@, ParseIP(hosts[i]))], hosts, i + 1)
         ELSE AddHosts([template EXCEPT !.DNSNames = Append(@, hosts[i])],
                       hosts, i + 1)

\* The template GenerateCert hands to x509.CreateCertificate.
GenerateCertTemplate(hosts) ==
    IF IsClient(hosts)
    THEN [newCertificate EXCEPT
            !.ExtKeyUsage = <<"ClientAuth", "ServerAuth">>,
            !.KeyUsage = {"DigitalSignature"}]
    ELSE AddHosts(newCertificate, hosts, 1)

CallGenerateCert ==
    /\ fn = "none"
    /\ \E hosts \in HostLists(MaxHosts) :
          /\ fin' = hosts
          /\ fout' = GenerateCertTemplate(hosts)
    /\ fn' = "GenerateCert"

\* The wall clock readings time.Now() gives, to the second, in a zone
\* without transitions: the first MaxDay + 1 days of a month.
MaxDay == 1

GenerationTimes ==
    [day : 0..MaxDay, hour : {0, 1, 23}, minute : {0, 1, 4, 5, 6, 59},
     second : {0, 1, 59}]

\* time.Date(year, month, day, hour, min, sec, 0, time.Local) as seconds since
\* the start of day 0; a field outside its range carries into the next one.
timeDate(day, hour, min, sec) == ((day * 24 + hour) * 60 + min) * 60 + sec

\* The instant of a wall clock reading.
timeNow(now) == timeDate(now.day, now.hour, now.minute, now.second)

\* newCertificate: notBefore and notAfter.
newCertificateValidity(now) ==
    LET notBefore == timeDate(now.day, now.hour, now.minute - 5, 0) IN
    [NotBefore |-> notBefore, NotAfter |-> notBefore + 3600 * 24 * 1080]

CallNewCertificate ==
    /\ fn = "none"
    /\ \E now \in GenerationTimes :
          /\ fin' = now
          /\ fout' = newCertificateValidity(now)
    /\ fn' = "newCertificate"

\* host.go: SaveConfig, LoadHost, LoadConfig.  The driver structs of
\* cluster.go and rivet.go; a field's value is written as Go prints it.
DriverTypes == {"cluster", "rivet"}

StructFields(type) ==
    IF type = "cluster"
    THEN {"MachineName", "CaCertPath", "PrivateKeyPath", "SwarmMaster",
          "SwarmHost", "SwarmDiscovery", "ClusterNodes", "storePath"}
    ELSE {"MachineName", "APIEndpoint", "CPU", "Memory", "Storage", "SSHUser",
          "SSHPort", "CaCertPath", "PrivateKeyPath", "DriverKeyPath",
          "SwarmMaster", "SwarmHost", "SwarmDiscovery", "storePath"}

\* encoding/json reads and writes exported fields only.
Exported(x) == x # "storePath"

\* The zero value of a field, and the values explored for it.
Zero(x) ==
    CASE x \in {"CPU", "Memory", "Storage", "SSHPort"} -> "0"
      [] x = "SwarmMaster"                              -> "false"
      [] x = "ClusterNodes"                             -> "nil"
      [] OTHER                                          -> ""

FieldValues(x) ==
    CASE x \in {"CPU", "Memory", "Storage", "SSHPort"} -> {"0", "1"}
      [] x = "SwarmMaster"                              -> {"false", "true"}
      [] x = "ClusterNodes"                             -> {"nil", "[n1 n2]"}
      [] OTHER                                          -> {"", "a"}

\* Every assignment of explored values to a set of fields.
RECURSIVE Assignments(_)
Assignments(fields) ==
    IF fields = {} THEN {[x \in {} |-> ""]}
    ELSE LET x == CHOOSE y \in fields : TRUE IN
         {f @@ (x :> v) : f \in Assignments(fields \ {x}),
                          v \in FieldValues(x)}

\* auth.AuthOptions and swarm.SwarmOptions: plain structs of exported
\* fields.
AuthOptionsValues ==
    [CaCertPath : {"", "/certs/ca.pem"}, PrivateKeyPath : {"/certs/ca-key.pem"},
     StorePath : {"/store/a"}]

SwarmOptionsValues ==
    [IsSwarm : BOOLEAN, Master : {FALSE}, Discovery : {"token://t"}]

ZeroAuth == [CaCertPath |-> "", PrivateKeyPath |-> "", StorePath |-> ""]

ZeroSwarm == [IsSwarm |-> FALSE, Master |-> FALSE, Discovery |-> ""]

NilDriver == [type |-> "nil", f |-> [x \in {} |-> ""]]

\* cluster.NewDriver, rivet.NewDriver: the struct of the type with the four
\* arguments set.
DriverNew(type, machineName, storePath, caCert, privateKey) ==
    [type |-> type,
     f |-> [x \in StructFields(type) |->
              CASE x = "MachineName"    -> machineName
                [] x = "storePath"      -> storePath
                [] x = "CaCertPath"     -> caCert
                [] x = "PrivateKeyPath" -> privateKey
                [] OTHER                -> Zero(x)]]

\* json.Marshal(h): Name is tagged "-", storePath is unexported; Driver is
\* the object of the exported fields of the struct the interface holds.
jsonMarshal(h) ==
    [DriverName |-> h.DriverName,
     Driver |-> [x \in {y \in DOMAIN h.Driver.f : Exported(y)} |->
                   h.Driver.f[x]],
     AuthConfig |-> h.AuthConfig,
     SwarmConfig |-> h.SwarmConfig]

\* json.Unmarshal of the Driver object into the struct h.Driver points to:
\* the keys that name an exported field of this struct are set, the other
\* keys are dropped, the other fields are kept.
jsonUnmarshalDriver(obj, d) ==
    [d EXCEPT !.f = [x \in DOMAIN d.f |->
                       IF Exported(x) /\ x \in DOMAIN obj THEN obj[x]
                       ELSE d.f[x]]]

\* LoadConfig's first pass: json.Unmarshal into hostConfig{DriverName}.
hostConfigAlwaysCluster(data) == [DriverName |-> "cluster"]

hostConfig(data) == [DriverName |-> data.DriverName]

\* Host.LoadConfig on the record read from config.json: the first pass, the
\* driver made by drivers.NewDriver, the host after the second pass.
LoadConfig(h, data) ==
    LET config == hostConfig(data) IN
    IF config.DriverName \notin DriverTypes
    THEN [err |-> "hosts: Unknown driver", config |-> config,
          driver |-> NilDriver, host |-> h]
    ELSE LET driver == DriverNew(config.DriverName, h.Name, h.storePath,
                                 h.AuthConfig.CaCertPath,
                                 h.AuthConfig.PrivateKeyPath) IN
         [err |-> "nil", config |-> config, driver |-> driver,
          host |-> [h EXCEPT !.DriverName = data.DriverName,
                             !.Driver = jsonUnmarshalDriver(data.Driver, driver),
                             !.AuthConfig = data.AuthConfig,
                             !.SwarmConfig = data.SwarmConfig]]

\* LoadHost(name, storePath), the store path holding the record data.
LoadHost(name, storePath, data) ==
    LoadConfig([Name |-> name, DriverName |-> "", Driver |-> NilDriver,
                AuthConfig |-> ZeroAuth, SwarmConfig |-> ZeroSwarm,
                storePath |-> storePath], data)

\* NewHost and the settings of the driver's fields, then SaveConfig, then
\* LoadHost of the same name and store path.
CallSaveConfigLoadHost ==
    /\ fn = "none"
    /\ \E type \in DriverTypes, auth \in AuthOptionsValues,
          sw \in SwarmOptionsValues :
          \E cfg \in Assignments({x \in StructFields(type) : Exported(x)}) :
             LET h == [Name |-> "a", DriverName |-> type,
                       Driver |-> [type |-> type,
                                   f |-> cfg @@ ("storePath" :> auth.StorePath)],
                       AuthConfig |-> auth, SwarmConfig |-> sw,
                       storePath |-> auth.StorePath] IN
             /\ fin' = h
             /\ fout' = LoadHost(h.Name, h.storePath, jsonMarshal(h))
    /\ fn' = "SaveConfig LoadHost"

(***************************************************************************)
(* commands.go: cmdLs, getHostState, hostListItemByName                    *)
(***************************************************************************)

\* The longest host list that is explored.
MaxLsHosts == 2

\* The host names explored, as their bytes: "A", "a", "b", "ab".
LsNames == {<<65>>, <<97>>, <<98>>, <<97, 98>>}

VARIABLES
    hostList,       \* st.List(): the names of the stored hosts, in its order
    quiet,          \* the --quiet flag
    activeHost,     \* the position in hostList of the active host, 0 for none
    lpc,            \* where cmdLs is: range, collect, returned
    li,             \* the position of cmdLs's range loop
    ltask,          \* per host: none, running, send, done (getHostState)
    lres,           \* per host: what its queries gave
    sends,          \* per host: the sends on hostListItems that completed
    items,          \* items: the hostListItems received, in order
    chanClosed,     \* close(hostListItems) was executed
    printed         \* the rows written, in order

lsVars == <<hostList, quiet, activeHost, lpc, li, ltask, lres, sends, items,
            chanClosed, printed>>

LsHosts == 1 .. Len(hostList)

NoQueries == [State |-> "None", stErr |-> FALSE, URL |-> "", urlErr |-> FALSE]

\* What Driver.GetState and Host.GetURL can give getHostState.
StateOutcomes == {[st |-> "Running", err |-> FALSE],
                  [st |-> "Error", err |-> TRUE]}

URLOutcomes == {[url |-> "tcp://10.0.0.5:2376", err |-> FALSE],
                [url |-> "", err |-> TRUE]}

\* strings.ToLower on the bytes of a name.
ToLower(name) ==
    [i \in DOMAIN name |->
        IF name[i] >= 65 /\ name[i] <= 90 THEN name[i] + 32 ELSE name[i]]

\* The < of Go strings: byte by byte, a proper prefix is smaller.
RECURSIVE StringLess(_, _, _)
StringLess(a, b, i) ==
    IF i > Len(b) THEN FALSE
    ELSE IF i > Len(a) THEN TRUE
    ELSE IF a[i] # b[i] THEN a[i] < b[i]
    ELSE StringLess(a, b, i + 1)

\* hostListItemByName.Less
Less(x, y) == StringLess(ToLower(x.Name), ToLower(y.Name), 1)

\* sort.Sort on a slice of at most seven elements is insertionSort:
\* for i { for j := i; j > a && Less(j, j-1); j-- { Swap(j, j-1) } }
RECURSIVE SinkDown(_, _)
SinkDown(s, j) ==
    IF j > 1 /\ Less(s[j], s[j - 1])
    THEN SinkDown([s EXCEPT ![j] = s[j - 1], ![j - 1] = s[j]], j - 1)
    ELSE s

RECURSIVE insertionSort(_, _)
insertionSort(s, i) ==
    IF i > Len(s) THEN s
    ELSE insertionSort(SinkDown(s, i), i + 1)

sortSort(s) == insertionSort(s, 2)

\* How many results cmdLs receives before it closes the channel.
ReceiveCountShort(n) == IF n > 0 THEN n - 1 ELSE 0

ReceiveCount(n) == n

\* The hostListItem a task sends.
hostListItem(i) ==
    [Name |-> hostList[i], Active |-> (i = activeHost),
     State |-> lres[i].State, URL |-> lres[i].URL]

LsInit ==
    /\ \E n \in 0 .. MaxLsHosts :
          hostList \in {s \in [1 .. n -> LsNames] :
                           \A i, j \in 1 .. n : i # j => s[i] # s[j]}
    /\ quiet \in BOOLEAN
    /\ activeHost \in {0, 1} /\ activeHost <= Len(hostList)
    /\ lpc = "range"
    /\ li = 1
    /\ ltask = [i \in LsHosts |-> "none"]
    /\ lres = [i \in LsHosts |-> NoQueries]
    /\ sends = [i \in LsHosts |-> 0]
    /\ items = << >>
    /\ chanClosed = FALSE
    /\ printed = << >>

\* One round of cmdLs's range loop: go getHostState(...), or, with --quiet,
\* the name is written.
LsRange ==
    /\ lpc = "range"
    /\ li <= Len(hostList)
    /\ IF quiet
       THEN /\ printed' = Append(printed, [Name |-> hostList[li]])
            /\ UNCHANGED ltask
       ELSE /\ ltask' = [ltask EXCEPT ![li] = "running"]
            /\ UNCHANGED printed
    /\ li' = li + 1
    /\ UNCHANGED <<hostList, quiet, activeHost, lpc, lres, sends, items,
                   chanClosed>>

\* The range loop is over.
LsRangeEnd ==
    /\ lpc = "range"
    /\ li > Len(hostList)
    /\ lpc' = "collect"
    /\ UNCHANGED <<hostList, quiet, activeHost, li, ltask, lres, sends, items,
                   chanClosed, printed>>

\* getHostState up to its send: GetState, GetURL, IsActive; an error is
\* logged and the task goes on.
getHostStateQueries(i) ==
    /\ ltask[i] = "running"
    /\ \E s \in StateOutcomes, u \in URLOutcomes :
          lres' = [lres EXCEPT ![i] = [State |-> s.st, stErr |-> s.err,
                                       URL |-> u.url, urlErr |-> u.err]]
    /\ ltask' = [ltask EXCEPT ![i] = "send"]
    /\ UNCHANGED <<hostList, quiet, activeHost, lpc, li, sends, items,
                   chanClosed, printed>>

\* hostListItems is unbuffered: the send of task i and a receive of cmdLs's
\* collecting loop happen together.
LsReceive(i) ==
    /\ lpc = "collect"
    /\ ~quiet
    /\ Len(items) < ReceiveCount(Len(hostList))
    /\ ltask[i] = "send"
    /\ items' = Append(items, hostListItem(i))
    /\ sends' = [sends EXCEPT ![i] = @ + 1]
    /\ ltask' = [ltask EXCEPT ![i] = "done"]
    /\ UNCHANGED <<hostList, quiet, activeHost, lpc, li, lres, chanClosed,
                   printed>>

\* close(hostListItems), sort.Sort, the rows, w.Flush().
LsFinish ==
    /\ lpc = "collect"
    /\ quiet \/ Len(items) >= ReceiveCount(Len(hostList))
    /\ chanClosed' = TRUE
    /\ printed' = printed \o sortSort(items)
    /\ lpc' = "returned"
    /\ UNCHANGED <<hostList, quiet, activeHost, li, ltask, lres, sends,
                   items>>

(***************************************************************************)
(* utils: WaitForDocker                                                    *)
(***************************************************************************)

\* maxRetries is explored from -MaxDockerRetries to MaxDockerRetries; a call
\* is followed for at most MaxDockerAttempts connection attempts.
MaxDockerRetries == 4

MaxDockerAttempts == 8

VARIABLES
    maxRetries,     \* the argument maxRetries
    counter,        \* the local counter
    attempts,       \* the net.DialTimeout calls made
    slept,          \* the time.Sleep(1 * time.Second) calls made
    wpc,            \* where the call is: dial, sleep, returned
    wret            \* what it returned

dockerVars == <<maxRetries, counter, attempts, slept, wpc, wret>>

WaitForDockerInit ==
    /\ maxRetries \in (0 - MaxDockerRetries) .. MaxDockerRetries
    /\ counter = 0
    /\ attempts = 0
    /\ slept = 0
    /\ wpc = "dial"
    /\ wret = FALSE

\* if counter == maxRetries
ReachedMaxOrBeyond(c, max) == c >= max

ReachedMax(c, max) == c = max

\* What follows a failed attempt, the counter already incremented: return
\* false, or sleep and continue.
AfterFailureNoSleep(c, max) ==
    IF ReachedMax(c, max) THEN "returned" ELSE "dial"

AfterFailure(c, max) ==
    IF ReachedMax(c, max) THEN "returned" ELSE "sleep"

\* One net.DialTimeout: it connects (break, return true) or it fails.
WaitForDockerDial ==
    /\ wpc = "dial"
    /\ attempts < MaxDockerAttempts
    /\ attempts' = attempts + 1
    /\ \E connected \in BOOLEAN :
          IF connected
          THEN /\ wpc' = "returned"
               /\ wret' = TRUE
               /\ counter' = counter
          ELSE /\ counter' = counter + 1
               /\ wpc' = AfterFailure(counter + 1, maxRetries)
               /\ wret' = FALSE
    /\ UNCHANGED <<maxRetries, slept>>

\* time.Sleep(1 * time.Second); continue
WaitForDockerSleep ==
    /\ wpc = "sleep"
    /\ slept' = slept + 1
    /\ wpc' = "dial"
    /\ UNCHANGED <<maxRetries, counter, attempts, wret>>

(***************************************************************************)
(* The specifications                                                      *)
(***************************************************************************)

vars == <<fleetVars, hostVars, regVars, certVars, fnVars, lsVars, dockerVars>>

\* What each specification leaves alone.
nonFleetVars == <<hostVars, regVars, certVars, fnVars, lsVars, dockerVars>>

nonHostVars == <<fleetVars, regVars, certVars, fnVars, lsVars, dockerVars>>

nonRegVars == <<fleetVars, hostVars, certVars, fnVars, lsVars, dockerVars>>

nonCertVars == <<fleetVars, hostVars, regVars, fnVars, lsVars, dockerVars>>

nonFnVars == <<fleetVars, hostVars, regVars, certVars, lsVars, dockerVars>>

nonDockerVars == <<fleetVars, hostVars, regVars, certVars, fnVars, lsVars>>

nonLsVars == <<fleetVars, hostVars, regVars, certVars, fnVars, dockerVars>>

\* The part that is not exercised stays in one idle state.
FleetIdle == FleetInit /\ Len(ClusterNodes) = 0

HostIdle == HostInit

RegIdle == RegInit

CertIdle == CertInit

FnIdle == FnInit

LsIdle == LsInit /\ Len(hostList) = 0 /\ quiet

DockerIdle == WaitForDockerInit /\ maxRetries = 1

Init == FleetInit /\ HostIdle /\ RegIdle /\ CertIdle /\ FnIdle /\ LsIdle /\ DockerIdle

Next ==
    \/ FleetGetState /\ UNCHANGED nonFleetVars
    \/ \E act \in ClusterActions : FleetCall(act) /\ UNCHANGED nonFleetVars
    \/ LoopStep /\ UNCHANGED nonFleetVars
    \/ \E i \in Members : nodeAction(i) /\ UNCHANGED nonFleetVars
    \/ FleetJoin /\ UNCHANGED nonFleetVars
    \/ FleetRemove /\ UNCHANGED nonFleetVars
    \/ FleetKill /\ UNCHANGED nonFleetVars
    \/ FleetGetSSHCommand /\ UNCHANGED nonFleetVars

Spec == Init /\ [][Next]_vars

InitHost == HostInit /\ FleetIdle /\ RegIdle /\ CertIdle /\ FnIdle /\ LsIdle /\ DockerIdle

NextHost ==
    \/ \E op \in HostOps, f \in BOOLEAN :
          (op = "Remove" \/ ~f) /\ HostCall(op, f) /\ UNCHANGED nonHostVars
    \/ \E f \in BOOLEAN : ProviderRemoveCall(f) /\ UNCHANGED nonHostVars
    \/ HostDriverOp /\ UNCHANGED nonHostVars
    \/ HostSaveConfig /\ UNCHANGED nonHostVars
    \/ HostPoll /\ UNCHANGED nonHostVars
    \/ HostRestartWait /\ UNCHANGED nonHostVars
    \/ \E sw \in SwarmConfigs :
          \E h \in SwarmHostsOf(sw) :
             HostCreateCall(sw, h) /\ UNCHANGED nonHostVars
    \/ HostWaitForSSH /\ UNCHANGED nonHostVars
    \/ HostDetectProvisioner /\ UNCHANGED nonHostVars
    \/ HostProvisionStep /\ UNCHANGED nonHostVars
    \/ \E valid \in BOOLEAN, k \in 0..Len(ProviderCreateSteps) :
          ProviderCreate(valid, k) /\ UNCHANGED nonHostVars
    \/ HostRemoveStorePath /\ UNCHANGED nonHostVars
    \/ ProviderAfterRemove /\ UNCHANGED nonHostVars
    \/ HostDone /\ UNCHANGED nonHostVars

InitFleetRestart ==
    FleetRestartInit /\ HostIdle /\ RegIdle /\ CertIdle /\ FnIdle /\ LsIdle /\ DockerIdle

NextFleetRestart ==
    \/ FleetRestartCall /\ UNCHANGED nonFleetVars
    \/ LoopStep /\ UNCHANGED nonFleetVars
    \/ \E i \in Members : nodeAction(i) /\ UNCHANGED nonFleetVars
    \/ FleetRestartJoin /\ UNCHANGED nonFleetVars
    \/ FleetJoin /\ UNCHANGED nonFleetVars

SpecFleetRestart == InitFleetRestart /\ [][NextFleetRestart]_vars

\* Host.Stop of a host whose Driver is the fleet driver.
InitFleetHost ==
    HostInit /\ FleetRestartInit /\ RegIdle /\ CertIdle /\ FnIdle /\ LsIdle /\ DockerIdle

NextFleetHost ==
    \/ HostCall("Stop", FALSE) /\ UNCHANGED nonHostVars
    \/ HostDriverOp /\ UNCHANGED nonHostVars
    \/ HostSaveConfig /\ UNCHANGED nonHostVars
    \/ FleetHostPoll /\ UNCHANGED <<regVars, certVars, fnVars, lsVars, dockerVars>>
    \/ HostDone /\ UNCHANGED nonHostVars

SpecFleetHost == InitFleetHost /\ [][NextFleetHost]_vars

SpecHost == InitHost /\ [][NextHost]_vars

InitRegistry == RegInit /\ FleetIdle /\ HostIdle /\ CertIdle /\ FnIdle /\ LsIdle /\ DockerIdle

NextRegistry ==
    \/ \E name \in DriverNames, rd \in Constructors :
          Register(name, rd) /\ UNCHANGED nonRegVars
    \/ \E name \in DriverNames, ok \in BOOLEAN :
          NewDriver(name, ok) /\ UNCHANGED nonRegVars

SpecRegistry == InitRegistry /\ [][NextRegistry]_vars

InitCerts == CertInit /\ FleetIdle /\ HostIdle /\ RegIdle /\ FnIdle /\ LsIdle /\ DockerIdle

NextCerts ==
    \/ \E f \in SetupFailures :
          CallSetupMachineCertificates(f) /\ UNCHANGED nonCertVars
    \/ \E fail \in GenFailures :
          CallGenerateCACertificate(fail) /\ UNCHANGED nonCertVars
    \/ \E p \in CertFiles : UserRemoves(p) /\ UNCHANGED nonCertVars

SpecCerts == InitCerts /\ [][NextCerts]_vars

InitFunctions == FnInit /\ FleetIdle /\ HostIdle /\ RegIdle /\ CertIdle /\ LsIdle /\ DockerIdle

NextFunctions ==
    \/ CallRivetGetState /\ UNCHANGED nonFnVars
    \/ CallClusterGetState /\ UNCHANGED nonFnVars
    \/ CallValidateHostName /\ UNCHANGED nonFnVars
    \/ CallGenerateCert /\ UNCHANGED nonFnVars
    \/ CallNewCertificate /\ UNCHANGED nonFnVars
    \/ CallRivetLifecycle /\ UNCHANGED nonFnVars
    \/ CallSaveConfigLoadHost /\ UNCHANGED nonFnVars

SpecFunctions == InitFunctions /\ [][NextFunctions]_vars

InitLs == LsInit /\ FleetIdle /\ HostIdle /\ RegIdle /\ CertIdle /\ FnIdle /\ DockerIdle

NextLs ==
    \/ LsRange /\ UNCHANGED nonLsVars
    \/ LsRangeEnd /\ UNCHANGED nonLsVars
    \/ \E i \in LsHosts : getHostStateQueries(i) /\ UNCHANGED nonLsVars
    \/ \E i \in LsHosts : LsReceive(i) /\ UNCHANGED nonLsVars
    \/ LsFinish /\ UNCHANGED nonLsVars

SpecLs == InitLs /\ [][NextLs]_vars

InitWaitForDocker ==
    WaitForDockerInit /\ FleetIdle /\ HostIdle /\ RegIdle /\ CertIdle /\ FnIdle
    /\ LsIdle

NextWaitForDocker ==
    \/ WaitForDockerDial /\ UNCHANGED nonDockerVars
    \/ WaitForDockerSleep /\ UNCHANGED nonDockerVars

SpecWaitForDocker == InitWaitForDocker /\ [][NextWaitForDocker]_vars

(***************************************************************************)
(* The fleet driver's properties (checked under Spec)                      *)
(***************************************************************************)

Resolved == \A i \in Members : ClusterNodes[i] \in stored

RunningAnswer == [st |-> "Running", err |-> FALSE]

Dispatched(i) == Cardinality({k \in DOMAIN spawned : spawned[k] = i})

Finished(i) == task[i] \in {"ok", "failed"}

FanOutReturned == fop \in {"Start", "Stop", "Upgrade"} /\ fpc = "returned"

\* C1: a returned fleet GetState is Error with an error iff some member name
\* does not resolve; otherwise it is Running iff every member was queried and
\* answered Running without an error, and Degraded without an error iff the
\* last member queried is the first one that answered anything else or whose
\* query failed (no member after it is queried).
FleetGetStateAggregates ==
    (fop = "GetState" /\ fpc = "returned") =>
        /\ fret.state \in {"Running", "Degraded", "Error"}
        /\ (fret.state = "Error") <=> ~Resolved
        /\ fret.err <=> ~Resolved
        /\ (fret.state = "Running") <=>
              (Resolved /\ \A i \in Members : queried[i] /\ mState[i] = RunningAnswer)
        /\ (fret.state = "Degraded") <=>
              (Resolved /\ \E i \in Members :
                              /\ queried[i]
                              /\ mState[i] # RunningAnswer
                              /\ \A j \in Members : j < i => mState[j] = RunningAnswer
                              /\ \A j \in Members : j > i => ~queried[j])
        /\ ~Resolved => \A i \in Members : ~queried[i]

\* C1 witness: three members, the first two Running, the query of the third
\* fails: Degraded without an error.
FleetGetStateDegradedReached ==
    /\ fop = "GetState" /\ fpc = "returned"
    /\ Len(ClusterNodes) = 3
    /\ mState[1] = RunningAnswer /\ mState[2] = RunningAnswer
    /\ queried[3] /\ mState[3].err
    /\ fret = [state |-> "Degraded", err |-> FALSE]

\* C2: when all members resolve, a returned fleet Start / Stop / Upgrade
\* returned nil, had queried every member, and every task it dispatched has
\* run to its end, whichever of them failed; and while it runs, a failed task
\* never stops the loop or a running sibling from taking its next step.
FleetFaultIsolation ==
    (Resolved /\ fop \in {"Start", "Stop", "Upgrade"}) =>
        /\ fpc = "returned" =>
              /\ fret.err = FALSE
              /\ \A i \in Members : queried[i] /\ task[i] # "running"
              /\ \A i \in Members : Dispatched(i) = 1 => Finished(i)
        /\ \A i \in Members : task[i] = "running" => ENABLED nodeAction(i)
        /\ fpc = "loop" => ENABLED LoopStep

\* C2 witness: a returned call one of whose three tasks failed while the
\* other two succeeded.
FleetOneOfThreeFailedReached ==
    /\ FanOutReturned /\ fop = "Start"
    /\ Len(ClusterNodes) = 3
    /\ task[2] = "failed" /\ task[1] = "ok" /\ task[3] = "ok"
    /\ fret.err = FALSE

\* C3: the wait counter is the number of tasks dispatched and not finished
\* (each go statement is preceded by one Add, each task ends with one Done);
\* the call has not returned while a task runs; and once the loop is over and
\* no task runs, the call can return.
FleetJoinBarrier ==
    /\ wg = Cardinality({i \in Members : task[i] = "running"})
    /\ wg = Len(spawned) - Cardinality({i \in Members : Finished(i)})
    /\ \A i \in Members : Dispatched(i) <= 1
    /\ \A i \in Members : (task[i] # "none") <=> (Dispatched(i) = 1)
    /\ fpc = "returned" => \A i \in Members : task[i] # "running"
    /\ (fpc = "wait" /\ \A i \in Members : task[i] # "running") => ENABLED FleetJoin
    /\ (fpc = "wait" /\ \E i \in Members : task[i] = "running") => ~ENABLED FleetJoin

\* C3 witness: the caller waits at the barrier while two tasks still run.
FleetWaitingOnTasksReached ==
    /\ fpc = "wait"
    /\ wg = 2
    /\ \E i \in Members : Finished(i)

\* C4: a member that answered Running gets no task from Start, one that
\* answered Stopped gets none from Stop, one whose query failed gets none;
\* every other member the loop has passed got exactly one.
FleetSkipsMembersInState ==
    (fop \in {"Start", "Stop"}) =>
        \A i \in Members :
            LET skip == IF fop = "Start" THEN "Running" ELSE "Stopped" IN
            /\ (queried[i] /\ mState[i].st = skip) => Dispatched(i) = 0
            /\ (queried[i] /\ mState[i].err) => Dispatched(i) = 0
            /\ (queried[i] /\ ~mState[i].err /\ mState[i].st # skip) => Dispatched(i) = 1
            /\ ~queried[i] => Dispatched(i) = 0

\* C4 witness: a Stop that skipped a Stopped member and dispatched to a
\* Running one.
FleetStopSkippedReached ==
    /\ fop = "Stop" /\ fpc = "returned"
    /\ \E i, j \in Members :
          /\ mState[i] = [st |-> "Stopped", err |-> FALSE] /\ Dispatched(i) = 0
          /\ mState[j] = RunningAnswer /\ Dispatched(j) = 1

\* C5 (the claim as stated): a returned fleet Remove whose members resolve
\* has dispatched one task to every member and joined them.
FleetRemoveDispatches ==
    (fop = "Remove" /\ fpc = "returned" /\ Resolved) =>
        \A i \in Members : Dispatched(i) = 1 /\ Finished(i)

(***************************************************************************)
(* The Host operations' properties (checked under SpecHost)                *)
(***************************************************************************)

Did(what) == \E i \in DOMAIN htrace : htrace[i][1] = what

Failed(what) == \E i \in DOMAIN htrace : htrace[i] = <<what, FALSE>>

LocalStateKept == storeDir = pre.storeDir /\ storeHas = pre.storeHas

\* The order Driver op -> persist -> poll of one call, with d the Driver
\* method and t the state waited for.
DriverPersistPoll(d, t) ==
    /\ \A i \in DOMAIN htrace :
          /\ i = 1 => htrace[i][1] = d
          /\ i = 2 => htrace[i][1] = "SaveConfig" /\ htrace[1][2] = TRUE
          /\ i >= 3 => htrace[i][1] = "GetState" /\ htrace[2][2] = TRUE
    /\ Failed(d) => Len(htrace) = 1 /\ hret = <<"error of", d>>
    /\ Failed("SaveConfig") => Len(htrace) = 2 /\ hret = <<"error of", "SaveConfig">>
    /\ hret = "nil" =>
          /\ Len(htrace) >= 3
          /\ htrace[Len(htrace)][1] = "GetState"
          /\ htrace[Len(htrace)][2].st = t
    /\ \A i \in DOMAIN htrace :
          (i < Len(htrace) /\ htrace[i][1] = "GetState") => htrace[i][2].st # t

\* C6: once Driver.Remove has failed in a Remove without force, Host.Remove
\* has returned that error, nothing was persisted or deleted, the local state
\* is the one before the call, and Provider.Remove returns the same error
\* without calling store.Remove.
RemoveWithoutForcePreserves ==
    (hop = "Remove" /\ ~force /\ Failed("Driver.Remove")) =>
        /\ hpc \in {"hostret", "done"}
        /\ hret = <<"error of", "Driver.Remove">>
        /\ LocalStateKept
        /\ ~Did("SaveConfig") /\ ~Did("os.Stat") /\ ~Did("os.RemoveAll")
        /\ ~Did("store.Remove")
        /\ (hcaller = "provider" /\ hpc = "done") => pret = hret

\* C6 witness: Provider.Remove without force returned the Driver's error.
RemoveWithoutForceFailedReached ==
    /\ hcaller = "provider" /\ hop = "Remove" /\ ~force
    /\ hpc = "done"
    /\ pret = <<"error of", "Driver.Remove">>
    /\ storeDir = "dir" /\ storeHas

\* C7 (the claim as stated): a Host.Remove with force that has returned has
\* deleted the store directory, unless the deletion itself failed.
ForceRemoveAlwaysDeletes ==
    (hop = "Remove" /\ force /\ hret # "none" /\ ~Failed("os.RemoveAll")) =>
        /\ storeDir = "absent"
        /\ hret # <<"error of", "Driver.Remove">>

\* C8: Host.Upgrade has returned the "deferred" error as soon as it is
\* called, having called no Driver method, persisted nothing, polled nothing
\* and left the local state as it was.
UpgradeIsDeferredNoOp ==
    (hop = "Upgrade") =>
        /\ hpc = "done"
        /\ hret = "centralized upgrade coming in the provisioner"
        /\ htrace = << >>
        /\ LocalStateKept

\* C8 witness: Upgrade returned on a host whose directory is already gone.
UpgradeReturnedReached ==
    /\ hop = "Upgrade" /\ hpc = "done"
    /\ storeDir = "absent"

\* C9: Host.Start and Host.Stop call their Driver method first, SaveConfig
\* only after it succeeded, GetState only after SaveConfig succeeded; a
\* failure of either is returned at once; success is returned only with the
\* first GetState answer that is the target state.
StartStopDriverPersistPoll ==
    /\ hop = "Start" => DriverPersistPoll("Driver.Start", "Running")
    /\ hop = "Stop" => DriverPersistPoll("Driver.Stop", "Stopped")

\* C9 witness: a Stop that returned success on its second poll.
StopSucceededAfterPollsReached ==
    /\ hop = "Stop" /\ hret = "nil"
    /\ Len(htrace) = 4
    /\ htrace[3][2].st = "Running"

\* C10 (the claim as stated): Host.Kill calls Driver.Kill, then persists,
\* then polls GetState until Stopped.
KillCallsDriverKill ==
    hop = "Kill" => DriverPersistPoll("Driver.Kill", "Stopped")

(***************************************************************************)
(* Host.Restart, Host.Create and the provisioning pipeline (SpecHost)      *)
(***************************************************************************)

\* The positions of the trace at which GetState answered with state t.
Observed(t) ==
    {i \in DOMAIN htrace : htrace[i][1] = "GetState" /\ htrace[i][2].st = t}

\* The GetState polls of the call, and those that missed the state t.
StatePolls == {i \in DOMAIN htrace : htrace[i][1] = "GetState"}

Missed(t) == {i \in StatePolls : htrace[i][2].st # t}

\* The attempts of the SSH wait, and those that found the machine unreachable.
SSHTries == {i \in DOMAIN htrace : htrace[i][1] = "sshAvailable"}

SSHFailures == {i \in SSHTries : htrace[i][2] # "ok"}

\* The positions of the trace at which a step of the create pipeline failed
\* (an attempt of the SSH wait that fails is retried, not a failed step).
FailedSteps ==
    {i \in DOMAIN htrace :
        htrace[i][1] # "sshAvailable" /\ htrace[i][2] = FALSE}

\* C11: in Host.Restart, Driver.Start is invoked only after Driver.Stop
\* succeeded and GetState reported Stopped (to the wait of Stop and to the
\* wait of Restart); when the Stop phase fails Driver.Start is never invoked;
\* success is returned only after Running was observed after the Start, and
\* the last step before it is a successful SaveConfig.
RestartOrdering ==
    hop = "Restart" =>
        /\ \A i \in DOMAIN htrace :
              htrace[i][1] = "Driver.Start" =>
                 /\ htrace[1] = <<"Driver.Stop", TRUE>>
                 /\ htrace[2] = <<"SaveConfig", TRUE>>
                 /\ Cardinality({j \in Observed("Stopped") : j < i}) = 2
        /\ (Failed("Driver.Stop") \/ Cardinality(Observed("Stopped")) < 2)
              => ~Did("Driver.Start")
        /\ hret = "nil" =>
              /\ \E i \in DOMAIN htrace :
                    /\ htrace[i] = <<"Driver.Start", TRUE>>
                    /\ Cardinality({j \in Observed("Running") : j > i}) = 2
              /\ htrace[Len(htrace)] = <<"SaveConfig", TRUE>>
              /\ hpc = "done"
        /\ (hret # "none" /\ hret # "nil") =>
              htrace[Len(htrace)][1] \in
                 {"Driver.Stop", "Driver.Start", "SaveConfig", "GetState"}

\* C11 witness: a Restart that returned success after six polls, two of
\* which, in different waits, missed the wanted state.
RestartSucceededReached ==
    /\ hop = "Restart" /\ hret = "nil"
    /\ hmiss = 2
    /\ Cardinality(StatePolls) = 6

\* C12 (the claim as stated): a Host.Create that returned success has called
\* Driver.Create, SaveConfig, the SSH wait, DetectProvisioner and Provision
\* in this order and has persisted the configuration once more after
\* Provision succeeded.
CreatePersistsAfterProvision ==
    (hop = "Create" /\ hret = "nil") =>
        /\ htrace[1] = <<"Driver.Create", TRUE>>
        /\ htrace[2] = <<"SaveConfig", TRUE>>
        /\ Did("DetectProvisioner")
        /\ FailedSteps = {}
        /\ htrace[Len(htrace)] = <<"SaveConfig", TRUE>>

\* C13: an SSH wait whose attempts all fail makes exactly MaxRetries
\* attempts, sleeps between two attempts, and then Host.Create returns the
\* "Too many retries" error; it never goes on to the provisioner and never
\* returns success.
BoundedSSHWait ==
    hop = "Create" =>
        /\ Cardinality(SSHFailures) <= MaxRetries
        /\ (SSHTries # {} /\ SSHFailures = SSHTries) =>
              /\ hret # "nil"
              /\ ~Did("DetectProvisioner")
              /\ hpc \in {"ssh", "done"}
              /\ hpc = "ssh" <=> Cardinality(SSHTries) < MaxRetries
              /\ hpc = "ssh" => hwait.slept = Cardinality(SSHTries)
              /\ hpc = "done" =>
                    /\ TooManyRetries = hret
                    /\ hwait.slept = MaxRetries - 1
        /\ TooManyRetries = hret =>
              /\ SSHFailures = SSHTries
              /\ Cardinality(SSHTries) = MaxRetries

\* C13 witness: Host.Create returned the "Too many retries" error.
SSHWaitGaveUpReached ==
    /\ hop = "Create"
    /\ TooManyRetries = hret
    /\ Cardinality(SSHFailures) = MaxRetries

PipelineAborts ==
    hop = "Create" =>
        /\ \A i \in FailedSteps : i = Len(htrace)
        /\ FailedSteps # {} => hpc \in {"done", "exited"}
        /\ TooManyRetries = hret => htrace[Len(htrace)][1] = "sshAvailable"
        /\ (hret # "none" /\ hret # "nil") => hpc = "done"

\* C15 witness: the upload of the server key failed after the CA certificate
\* had been uploaded.
PipelineAbortedMidwayReached ==
    /\ hop = "Create"
    /\ Failed("tee server-key.pem")
    /\ "CA certificate" \in remote
    /\ hpc = "done"

\* C16 (the claim as stated): when a step of the create pipeline fails,
\* Host.Create returns exactly the error of that step.
FirstFailureSurfacedVerbatim ==
    hop = "Create" =>
        \A i \in FailedSteps :
           /\ hpc = "done"
           /\ ErrOf(htrace[i][1]) = hret

\* C17: nothing but the CA certificate, the server certificate, the server
\* key and the daemon options is ever sent to the remote machine; the CA
\* private key is not.
CaPrivateKeyConfined ==
    /\ remote \subseteq {"CA certificate", "server certificate", "server key",
                         "daemon options"}
    /\ "CA private key" \notin remote

\* C17 witness: a create without cloud-init has uploaded the CA certificate
\* and the server key, not yet the server certificate.
RemoteArtifactsWrittenReached ==
    /\ hop = "Create"
    /\ remote = {"CA certificate", "server key"}

(***************************************************************************)
(* The driver registry (SpecRegistry)                                      *)
(***************************************************************************)

\* C18: every name maps to the constructor of the first Register call for
\* it; a Register of a registered name returns an error and leaves the
\* registry as it was; NewDriver of an unregistered name returns the
\* "unknown driver" error and constructs nothing, NewDriver of a registered
\* name calls the registered constructor.
DriverRegistry ==
    /\ drivers = firstReg
    /\ rres.op = "Register" =>
          IF rpre[rres.name] # Unregistered
          THEN rres.err = ErrAlreadyRegistered /\ drivers = rpre
          ELSE rres.err = "nil"
               /\ drivers = [rpre EXCEPT ![rres.name] = rres.ctor]
    /\ rres.op = "NewDriver" =>
          /\ drivers = rpre
          /\ IF drivers[rres.name] = Unregistered
             THEN /\ rres.err = ErrUnknownDriver
                  /\ rres.ctor = ""
                  /\ rres.built = "none"
             ELSE /\ rres.err # ErrUnknownDriver
                  /\ rres.ctor = drivers[rres.name]
                  /\ rres.built \in {"none", drivers[rres.name]}

\* C18 witness: a second Register of a name, with another constructor, was
\* refused.
DuplicateRegisterRefusedReached ==
    /\ rres.op = "Register"
    /\ rres.err = ErrAlreadyRegistered
    /\ rres.ctor # drivers[rres.name]

(***************************************************************************)
(* The certificate files (SpecCerts)                                       *)
(***************************************************************************)

CaAndClientFiles == {"caCert", "caKey", "clientCert", "clientKey"}

\* The call wrote none of the certificate and key files.
GeneratedNothing == \A p \in CaAndClientFiles : files[p] = cpre[p]

\* C19 (the claim as stated): with the CA pair and the client pair present,
\* SetupMachineCertificates returns nil and writes no file; with exactly one
\* of the CA certificate and the CA key present, it returns an error and
\* generates nothing.
SetupIdempotentOrRefuses ==
    cop = "SetupMachineCertificates" =>
        /\ (\A p \in CaAndClientFiles : cpre[p] # "absent") =>
              cret = "nil" /\ files = cpre
        /\ ((cpre["caCert"] = "absent") # (cpre["caKey"] = "absent")) =>
              cret # "nil" /\ GeneratedNothing

\* C20 (the claim as stated): GenerateCACertificate called when the
\* certificate file or the key file exists returns an error and leaves both
\* files as they were.
GenerateCARefusesToRegenerate ==
    (/\ cop = "GenerateCACertificate"
     /\ (cpre["caCert"] # "absent" \/ cpre["caKey"] # "absent")) =>
        /\ cret # "nil"
        /\ files["caCert"] = cpre["caCert"]
        /\ files["caKey"] = cpre["caKey"]

(***************************************************************************)
(* Provider.Create's validation, ConfigureAuth and configureSwarm          *)
(* (SpecHost)                                                              *)
(***************************************************************************)

\* The positions before i at which the step named what succeeded.
SucceededBefore(what, i) ==
    {j \in 1..(i - 1) : htrace[j] = <<what, TRUE>>}

\* C26: Provider.Create with an invalid name returns ErrInvalidHostname
\* without consulting the store; with a valid name the store has, it returns
\* the "already exists" error right after store.Exists answered; in both
\* cases nothing else is called, and the store and the host directory stay
\* as they were.
CreateValidationFailsFast ==
    hop = "Provider.Create" =>
        /\ htrace[1][1] = "ValidateHostName"
        /\ ~htrace[1][2] =>
              /\ pret = "ErrInvalidHostname"
              /\ Len(htrace) = 1
        /\ (htrace[1][2] /\ pre.storeHas) =>
              /\ Len(htrace) = 2
              /\ htrace[2][1] = "store.Exists"
              /\ htrace[2][2] => pret = "Machine already exists"
        /\ (~htrace[1][2] \/ pre.storeHas) =>
              /\ hpc = "done"
              /\ pret # "none" /\ pret # "nil"
              /\ hret = "none"
              /\ ~Did("NewHost") /\ ~Did("Plugin.Create")
              /\ remote = {}
        /\ LocalStateKept

\* C26 witness: a create of a valid name the store already has was refused.
CreateOfExistingRefusedReached ==
    /\ hop = "Provider.Create"
    /\ htrace[1][2]
    /\ pret = "Machine already exists"

AuthWrites ==
    {"tee ca.pem", "tee server-key.pem", "tee server.pem",
     "tee -a EngineConfigPath"}

SwarmStepNames == {configureSwarm(swarm)[i].name : i \in DOMAIN configureSwarm(swarm)}

\* C29: in ConfigureAuth every remote write is issued after the engine stop
\* succeeded and before any engine start; the engine start is issued only
\* after the four writes succeeded, and nothing of ConfigureAuth follows it.
ConfigureAuthOrdering ==
    hop = "Create" =>
        /\ \A i \in DOMAIN htrace :
              htrace[i][1] \in AuthWrites \cup {"mkdir dockerDir"} =>
                 /\ SucceededBefore("Service docker stop", i) # {}
                 /\ \A j \in 1..i : htrace[j][1] # "Service docker start"
        /\ \A i \in DOMAIN htrace :
              htrace[i][1] = "Service docker start" =>
                 /\ \A w \in AuthWrites : SucceededBefore(w, i) # {}
                 /\ \A j \in (i + 1)..Len(htrace) :
                       htrace[j][1] \in SwarmStepNames

\* C29 witness: the engine was started again, as the last step of a create
\* outside a swarm.
EngineRestartedReached ==
    /\ hop = "Create" /\ swarm = "none"
    /\ hret = "nil"
    /\ htrace[Len(htrace)] = <<"Service docker start", TRUE>>

\* C30: outside a swarm configureSwarm issues nothing and Provision ends with
\* ConfigureAuth; in a swarm the pull follows a successful wait for the
\* engine port, the manager is launched only on the master and after the
\* pull, the agent is launched after the pull and, on the master, right
\* after the manager; a failed wait, pull or manager launch is the last step.
ConfigureSwarmOrdering ==
    hop = "Create" =>
        /\ swarm = "none" =>
              /\ \A i \in DOMAIN htrace :
                    htrace[i][1] \notin
                       {"url.Parse swarmConfig.Host", "WaitForDocker",
                        "docker pull", "docker run swarm-agent-master",
                        "docker run swarm-agent"}
              /\ Did("Service docker start") /\ ~Failed("Service docker start")
                    => hret = "nil"
        /\ \A i \in DOMAIN htrace :
              /\ htrace[i][1] = "docker pull" =>
                    SucceededBefore("WaitForDocker", i) # {}
              /\ htrace[i][1] = "docker run swarm-agent-master" =>
                    /\ swarm = "master"
                    /\ SucceededBefore("docker pull", i) = {i - 1}
              /\ htrace[i][1] = "docker run swarm-agent" =>
                    IF swarm = "master"
                    THEN SucceededBefore("docker run swarm-agent-master", i)
                            = {i - 1}
                    ELSE SucceededBefore("docker pull", i) = {i - 1}
              /\ htrace[i] = <<"docker run swarm-agent-master", TRUE>> =>
                    IF i = Len(htrace)
                    THEN hpc = "provision" /\ hret = "none"
                    ELSE htrace[i + 1][1] = "docker run swarm-agent"
        /\ (\/ Failed("WaitForDocker") \/ Failed("docker pull")
            \/ Failed("docker run swarm-agent-master")) =>
              /\ ~Did("docker run swarm-agent")
              /\ htrace[Len(htrace)][2] = FALSE
        /\ (swarm # "none" /\ hret = "nil") =>
              htrace[Len(htrace)] = <<"docker run swarm-agent", TRUE>>

\* C30 witness: on a swarm master the manager and then the agent were
\* launched and the create returned success.
SwarmMasterLaunchedReached ==
    /\ hop = "Create" /\ swarm = "master"
    /\ hret = "nil"
    /\ Did("docker run swarm-agent-master")

(***************************************************************************)
(* The fleet driver's unimplemented operations (Spec)                      *)
(***************************************************************************)

\* C27 (the claim as stated): the operations the fleet driver does not
\* implement, Kill, Remove and GetSSHCommand, return an error.
UnsupportedReturnsError ==
    (fop \in {"Kill", "Remove", "GetSSHCommand"} /\ fpc = "returned") =>
        fret.err

(***************************************************************************)
(* GetState of the rivet and the fleet driver (SpecFunctions)              *)
(***************************************************************************)

\* C28: rivet's and the fleet driver's GetState return the state Error if
\* and only if they return an error; a query that succeeded never yields
\* Error, whatever the API or the members reported (an unknown response is
\* None, a member in Error makes the fleet Degraded); rivet never returns
\* Degraded.
StateErrorMeansQueryFailure ==
    /\ fn \in {"rivet.GetState", "cluster.GetState"} =>
          ((fout.state = "Error") <=> fout.err)
    /\ fn = "rivet.GetState" =>
          /\ fout.state # "Degraded"
          /\ (~fin.apiErr /\ ~fin.callErr /\ fin.StatusCode = 200) =>
                fout.state \in {"Running", "Stopped", "Starting", "None"}
    /\ fn = "cluster.GetState" =>
          ((\A i \in DOMAIN fin.ClusterNodes :
               fin.ClusterNodes[i] \in fin.stored) =>
                fout.state \in {"Running", "Degraded"})

\* rivet's API answered 200 with a response that names no known state, and
\* GetState returned None without an error.
RivetUnknownResponseReached ==
    /\ fn = "rivet.GetState"
    /\ ~fin.apiErr /\ ~fin.callErr /\ fin.StatusCode = 200
    /\ fin.Response = "error"
    /\ fout = [state |-> "None", err |-> FALSE]

(***************************************************************************)
(* ValidateHostName (SpecFunctions)                                        *)
(***************************************************************************)

\* The bytes explored that are an ASCII letter, a digit, '.' or '-':
\* a z A Z 0 9 - .
LettersDigitsDotDash == {97, 122, 65, 90, 48, 57, 45, 46}

\* C22: ValidateHostName returns no error if and only if the name is not
\* empty and each of its characters is an ASCII letter, a digit, '.' or
\* '-'; every other name gets ErrInvalidHostname; the name comes back as it
\* was given.
HostNameCharset ==
    fn = "ValidateHostName" =>
        /\ fout.name = fin
        /\ fout.err \in {"nil", "ErrInvalidHostname"}
        /\ (fout.err = "nil") <=>
              (/\ fin # << >>
               /\ \A i \in DOMAIN fin : fin[i] \in LettersDigitsDotDash)

\* A name with a '/' between valid characters ("a/z") was rejected.
HostNameWithSlashRejectedReached ==
    /\ fn = "ValidateHostName"
    /\ fin = <<97, 47, 122>>
    /\ fout.err = "ErrInvalidHostname"

(***************************************************************************)
(* GenerateCert's subject alternative names (SpecFunctions)                *)
(***************************************************************************)

\* The entries explored that are IP literals.
IPLiterals == {"10.0.0.5", "::1", "0:0:0:0:0:0:0:1"}

\* The positions up to i of the entries of one kind.
IPsUpTo(hosts, i) == {j \in 1 .. i : hosts[j] \in IPLiterals}

NamesBefore(hosts, i) == {j \in 1 .. i : hosts[j] \notin IPLiterals}

\* C21: for the host list of exactly one empty string the certificate is a
\* client certificate (ExtKeyUsage ClientAuth and ServerAuth, KeyUsage
\* digital signature only, no SAN entry); for every other list the k-th
\* entry that is an IP literal is the k-th of IPAddresses (as the address
\* it denotes), the k-th entry that is not is the k-th of DNSNames, and
\* the two fields hold nothing else.
SanClassification ==
    fn = "GenerateCert" =>
        IF fin = <<"">>
        THEN /\ fout.ExtKeyUsage = <<"ClientAuth", "ServerAuth">>
             /\ fout.KeyUsage = {"DigitalSignature"}
             /\ fout.IPAddresses = << >>
             /\ fout.DNSNames = << >>
        ELSE /\ Len(fout.IPAddresses) = Cardinality(IPsUpTo(fin, Len(fin)))
             /\ Len(fout.DNSNames) = Cardinality(NamesBefore(fin, Len(fin)))
             /\ \A i \in DOMAIN fin :
                   IF fin[i] \in IPLiterals
                   THEN LET k == Cardinality(IPsUpTo(fin, i)) IN
                        /\ fout.IPAddresses[k] # << >>
                        /\ fout.IPAddresses[k] = ParseIP(fin[i])
                   ELSE fout.DNSNames[Cardinality(NamesBefore(fin, i))] = fin[i]

\* A server certificate for a name, an address and the empty string, in
\* this order: the address alone is in IPAddresses, the other two are the
\* DNSNames.
MixedHostListReached ==
    /\ fn = "GenerateCert"
    /\ fin = <<"node.example.com", "10.0.0.5", "">>
    /\ fout.IPAddresses = <<(<<10, 0, 0, 5>>)>>
    /\ fout.DNSNames = <<"node.example.com", "">>

(***************************************************************************)
(* SaveConfig followed by LoadHost (SpecFunctions)                         *)
(***************************************************************************)

\* C23: a host saved with SaveConfig and loaded with LoadHost from the same
\* store path has a Driver of the same concrete type with the same values
\* in every persisted field, and the same DriverName, AuthConfig and
\* SwarmConfig; the first pass reads the DriverName alone, and the driver
\* the second pass decodes into is the one made for that name.
PersistenceRoundTrip ==
    fn = "SaveConfig LoadHost" =>
        /\ fout.err = "nil"
        /\ fout.config = [DriverName |-> fin.DriverName]
        /\ fout.driver.type = fout.config.DriverName
        /\ fout.host.Driver.type = fin.Driver.type
        /\ DOMAIN fout.host.Driver.f = DOMAIN fin.Driver.f
        /\ \A x \in DOMAIN fin.Driver.f :
              x # "storePath" => fout.host.Driver.f[x] = fin.Driver.f[x]
        /\ fout.host.DriverName = fin.DriverName
        /\ fout.host.AuthConfig = fin.AuthConfig
        /\ fout.host.SwarmConfig = fin.SwarmConfig

\* A rivet host whose fields differ from what rivet.NewDriver sets (CPU 1,
\* an empty MachineName, a CA path) came back as it was saved.
RivetHostReloadedReached ==
    /\ fn = "SaveConfig LoadHost"
    /\ fin.Driver.type = "rivet"
    /\ fin.Driver.f["CPU"] = "1"
    /\ fin.Driver.f["MachineName"] = ""
    /\ fin.Driver.f["CaCertPath"] = "a"
    /\ fout.driver.f["CPU"] = "0"
    /\ fout.driver.f["MachineName"] = "a"
    /\ fout.host.Driver = fin.Driver

(***************************************************************************)
(* The listing (SpecLs)                                                    *)
(***************************************************************************)

\* C24: without --quiet, no task completes more than one send; once the
\* channel is closed cmdLs has received as many results as there are hosts,
\* every task has completed exactly one send, whatever its queries gave,
\* and so none is at its send (blocked, or sending on the closed channel)
\* or before it.
ListingFanOut ==
    ~quiet =>
        /\ \A i \in LsHosts : sends[i] <= 1
        /\ Len(items) <= Len(hostList)
        /\ chanClosed =>
              /\ Len(items) = Len(hostList)
              /\ \A i \in LsHosts : sends[i] = 1 /\ ltask[i] = "done"
              /\ \A i \in LsHosts :
                    \E k \in DOMAIN items : items[k] = hostListItem(i)

\* Two hosts were listed, the state query of the first and the URL query
\* of the second failed, the second was received first, and the channel is
\* closed.
ListingWithFailedQueriesReached ==
    /\ ~quiet
    /\ Len(hostList) = 2
    /\ chanClosed
    /\ lres[1].stErr /\ ~lres[1].urlErr
    /\ lres[2].urlErr /\ ~lres[2].stErr
    /\ items = <<hostListItem(2), hostListItem(1)>>

\* The names of a sequence of rows.
NamesOf(rows) == [k \in DOMAIN rows |-> rows[k].Name]

\* C25 (the claim as stated): the rows are displayed in one order, whatever
\* order the tasks complete in: the order displayed when they complete in
\* the order of the host list.
ListingOrderDeterministic ==
    (lpc = "returned" /\ ~quiet) =>
        NamesOf(printed) = NamesOf(sortSort([i \in LsHosts |-> hostListItem(i)]))

(***************************************************************************)
(* Provider.Create and the driver (SpecHost)                               *)
(***************************************************************************)

\* C31: Provider.Create either returns an error before the Plugin.Create
\* call has succeeded, or the process ends right after the Plugin.Create
\* response; it returns no host without an error, and SetConfigFromFlags,
\* PreCreateCheck, the creation of the host directory, SaveConfig and
\* Host.Create (with it Driver.Create) are not called.
ProviderCreateNeverReachesDriver ==
    hop = "Provider.Create" =>
        /\ \A i \in DOMAIN ProviderCreateTail : ~Did(ProviderCreateTail[i])
        /\ ~Did("Driver.Create")
        /\ LocalStateKept
        /\ \/ /\ hpc = "done"
              /\ pret # "none" /\ pret # "nil"
              /\ htrace[Len(htrace)] # <<"Plugin.Create", TRUE>>
           \/ /\ hpc = "exited"
              /\ pret = "none"
              /\ htrace[Len(htrace)] = <<"Plugin.Create", TRUE>>

\* Provider.Create of a new, valid name with every call succeeding: the
\* process ended after Plugin.Create.
ProviderCreateExitedReached ==
    /\ hop = "Provider.Create"
    /\ hpc = "exited"
    /\ htrace[1] = <<"ValidateHostName", TRUE>>
    /\ ~pre.storeHas
    /\ Len(htrace) = 1 + Len(ProviderCreateSteps)

(***************************************************************************)
(* The fleet's Upgrade and Restart (Spec)                                  *)
(***************************************************************************)

\* C32 (the claim as stated): a fleet Upgrade that resolved its members and
\* returned has dispatched exactly one task for every member, whatever the
\* member's state is and whether or not its state query succeeded.
UpgradeDispatchesEveryMember ==
    (fop = "Upgrade" /\ fpc = "returned" /\ ~fret.err) =>
        \A i \in Members : Dispatched(i) = 1


\* C33: in a fleet Restart the start phase begins only when every stop task
\* has finished; a Restart that returned nil queried every member again in
\* its start phase and dispatched one start task to each member whose
\* answer was not Running (also to one that was stopped before the Restart)
\* and none to a member that answered Running or whose query failed; when
\* the stop phase cannot resolve the members, Restart returns the error
\* and the start phase does not run.
FleetRestartPhases ==
    fop = "Restart" =>
        /\ action = "start" =>
              /\ DOMAIN stopPhase = Members
              /\ \A i \in Members : stopPhase[i].task \in {"none", "ok", "failed"}
        /\ action = "stop" => stopPhase = << >>
        /\ (fpc = "returned" /\ ~fret.err) =>
              /\ action = "start"
              /\ \A i \in Members :
                    /\ queried[i]
                    /\ Finished(i) \/ task[i] = "none"
                    /\ Dispatched(i) =
                          IF ~mState[i].err /\ mState[i].st # "Running"
                          THEN 1 ELSE 0
        /\ (fpc = "returned" /\ fret.err) =>
              /\ ~Resolved
              /\ action = "stop"
              /\ spawned = << >>
              /\ \A i \in Members : ~queried[i]
        /\ (~Resolved /\ fpc # "idle") => (fpc = "returned" /\ fret.err)

\* A Restart of two members returned: the first was already stopped (no stop
\* task) and got a start task; the stop of the second failed, it answered
\* Running again and got no start task.
FleetRestartMixedReached ==
    /\ fop = "Restart"
    /\ fpc = "returned"
    /\ Len(ClusterNodes) = 2
    /\ action = "start"
    /\ stopPhase[1] = [task |-> "none", stopped |-> TRUE]
    /\ stopPhase[2].task = "failed"
    /\ Dispatched(1) = 1 /\ Finished(1)
    /\ mState[2] = RunningAnswer /\ Dispatched(2) = 0

(***************************************************************************)
(* Host.Stop of a host backed by the fleet driver (SpecFleetHost)          *)
(***************************************************************************)

\* C34: the fleet driver's GetState answers Running, Degraded or Error and
\* never Stopped; so Host.Stop of a host backed by it never returns nil:
\* once Driver.Stop and SaveConfig succeeded, no poll finds the state
\* Stopped, also when every member answers Stopped, and the call returns
\* the error of the wait that gave up.
FleetHostStopNeverSucceeds ==
    hop = "Stop" =>
        /\ \A i \in DOMAIN htrace :
              htrace[i][1] = "GetState" =>
                  /\ htrace[i][2].st \in {"Running", "Degraded", "Error"}
                  /\ ~MachineInState("Stopped", htrace[i][2])
        /\ hret # "nil"
        /\ (hpc = "done" /\ Did("GetState")) =>
              /\ ErrOf("WaitFor") = hret
              /\ WaitForGivesUp(Cardinality(StatePolls))

\* Host.Stop of a fleet of two: Driver.Stop succeeded, both members answered
\* Stopped to the last poll, the fleet's answer was Degraded, and Stop
\* returned the error of the wait.
FleetHostAllStoppedReached ==
    /\ hop = "Stop"
    /\ hpc = "done"
    /\ Len(ClusterNodes) = 2
    /\ \A i \in Members : mState[i] = [st |-> "Stopped", err |-> FALSE]
    /\ htrace[1] = <<"Driver.Stop", TRUE>>
    /\ htrace[Len(htrace)] = <<"GetState", [st |-> "Degraded", err |-> FALSE]>>
    /\ ErrOf("WaitFor") = hret

(***************************************************************************)
(* WaitForDocker (SpecWaitForDocker)                                       *)
(***************************************************************************)

\* No connection attempt of the call has succeeded.
NeverAccepted == counter = attempts

\* C35: for maxRetries >= 1, WaitForDocker makes at most maxRetries
\* attempts with one sleep of a second between two consecutive attempts;
\* when no attempt succeeds it returns false after exactly maxRetries
\* attempts and maxRetries - 1 sleeps; when attempt k succeeds it returns
\* true after exactly k attempts (and k - 1 sleeps).
WaitForDockerBoundedRetry ==
    maxRetries >= 1 =>
        /\ attempts <= maxRetries
        /\ slept = IF wpc = "sleep" THEN attempts - 1
                   ELSE IF wpc = "dial" THEN attempts
                   ELSE attempts - 1
        /\ (wpc # "returned" /\ attempts > 0) => NeverAccepted
        /\ (wpc = "returned" /\ ~wret) =>
              /\ NeverAccepted
              /\ attempts = maxRetries
              /\ slept = maxRetries - 1
        /\ (wpc = "returned" /\ wret) =>
              /\ counter = attempts - 1
              /\ slept = attempts - 1
        /\ (NeverAccepted /\ attempts = maxRetries) =>
              (wpc = "returned" /\ ~wret)

\* With maxRetries = 3 and no attempt succeeding, the call returned false
\* after three attempts and two sleeps.
WaitForDockerGaveUpReached ==
    /\ maxRetries = 3
    /\ wpc = "returned"
    /\ ~wret
    /\ attempts = 3
    /\ slept = 2

AfterStopSteps ==
    {"mkdir dockerDir", "ReadFile CaCertPath", "ReadFile ServerCertPath",
     "ReadFile ServerKeyPath", "tee ca.pem", "tee server-key.pem",
     "tee server.pem", "GetURL", "url.Parse dockerUrl", "strconv.Atoi port",
     "GenerateDockerConfig", "tee -a EngineConfigPath"}

\* What each upload of ConfigureAuth leaves on the remote machine.
UploadLeaves ==
    [n \in AuthWrites |->
        CASE n = "tee ca.pem" -> "CA certificate"
          [] n = "tee server-key.pem" -> "server key"
          [] n = "tee server.pem" -> "server certificate"
          [] OTHER -> "daemon options"]

\* C37: when a step of ConfigureAuth after the engine stop fails, the engine
\* had been stopped, the error of that step is what the call returns, the
\* failed step is the last thing done, no engine start was or is issued, and
\* what the earlier uploads wrote is still on the remote machine.
ConfigureAuthNoRecovery ==
    hop = "Create" =>
        \A i \in DOMAIN htrace :
           (htrace[i][1] \in AfterStopSteps /\ htrace[i][2] = FALSE) =>
              /\ SucceededBefore("Service docker stop", i) # {}
              /\ ~Did("Service docker start")
              /\ i = Len(htrace)
              /\ hpc = "done"
              /\ ErrOf(htrace[i][1]) = hret
              /\ \A n \in AuthWrites :
                    SucceededBefore(n, i) # {} => UploadLeaves[n] \in remote

\* C37 witness: the upload of the server certificate failed after the engine
\* was stopped and the CA certificate and the server key were uploaded; the
\* call is over and no engine start was issued.
AuthFailedEngineLeftStoppedReached ==
    /\ hop = "Create"
    /\ Failed("tee server.pem")
    /\ htrace[Len(htrace)] = <<"tee server.pem", FALSE>>
    /\ SucceededBefore("Service docker stop", Len(htrace)) # {}
    /\ {"CA certificate", "server key"} \subseteq remote
    /\ ~Did("Service docker start")
    /\ hpc = "done"


\* Has the host part no ':' in it.
NoPort(host) == \A i \in DOMAIN host : host[i] # ":"

\* C38: on a swarm host whose management address parses but carries no
\* ':port' part, configureSwarm ends the process at the port extraction:
\* that is the last thing done, no error value is returned, and neither the
\* wait for the engine nor a remote command of configureSwarm was issued.
SwarmHostWithoutPortPanics ==
    (/\ hop = "Create" /\ swarm # "none"
     /\ ~swarmHost.err /\ NoPort(swarmHost.host)
     /\ Did("url.Parse swarmConfig.Host")) =>
        /\ htrace[Len(htrace)] = <<"url.Parse swarmConfig.Host", FALSE>>
        /\ hpc = "exited"
        /\ hret = "none"
        /\ \A i \in DOMAIN htrace :
              htrace[i][1] \notin
                 {"WaitForDocker", "docker pull",
                  "docker run swarm-agent-master", "docker run swarm-agent"}

\* C38 witness: a swarm master with the address "h" was provisioned up to
\* the engine start, and the process ended in configureSwarm.
SwarmHostWithoutPortReached ==
    /\ hop = "Create" /\ swarm = "master"
    /\ swarmHost = [err |-> FALSE, host |-> <<"h">>]
    /\ Len(htrace) > 1
    /\ htrace[Len(htrace) - 1] = <<"Service docker start", TRUE>>
    /\ htrace[Len(htrace)] = <<"url.Parse swarmConfig.Host", FALSE>>
    /\ hpc = "exited"


(***************************************************************************)
(* newCertificate's validity window (SpecFunctions)                        *)
(***************************************************************************)

\* C39 (the claim as stated): NotBefore is exactly 300 seconds before the
\* generation time and NotAfter exactly 1080 days after NotBefore.
ValidityWindowExact ==
    fn = "newCertificate" =>
        /\ fout.NotBefore = timeNow(fin) - 300
        /\ fout.NotAfter = fout.NotBefore + 1080 * 86400


(***************************************************************************)
(* The lifecycle methods of the rivet driver (SpecFunctions)               *)
(***************************************************************************)

\* C40 (the claim as stated): when the API answers a lifecycle call of the
\* rivet driver with a transport error or a status other than 200, the
\* method returns an error to its caller, after one request and without
\* ending the process.
BackendErrorsPropagated ==
    (/\ fn = "rivet lifecycle"
     /\ fout.calls > 0
     /\ fin.callErr \/ fin.StatusCode # 200) =>
        /\ fout.ret \notin {"nil", "none"}
        /\ ~fout.exited
        /\ fout.calls = 1

====
